---- MODULE Spec2Model ----
(***************************************************************************)
(* Model of the acquisition session of sardana-limaccd                     *)
(* (src/sardana_limaccd/client.py, class Acquisition) together with the    *)
(* LimaCCDs device it polls.  The session is driven by one caller; the     *)
(* device advances its counters on its own between the caller's calls.     *)
(***************************************************************************)
EXTENDS Integers, Sequences, FiniteSets, TLC

\* ------------------------------------------------------------------ bounds
MaxCalls == 2           \* start() is called at most MaxCalls times
MaxRefs == 2            \* next_ref_frame is called until emitted holds MaxRefs

\* Trigger modes of the device (Trigger.mode, upper case).
Modes ==
    {"INTERNAL_TRIGGER", "INTERNAL_TRIGGER_MULTI", "EXTERNAL_TRIGGER",
     "EXTERNAL_TRIGGER_MULTI", "EXTERNAL_GATE"}

\* Values of the device attribute acq_status; "Fault" and "Configuration"
\* stand for every value other than Ready and Running.
AcqStatus == {"Ready", "Running", "Fault", "Configuration"}

\* Values of nb_points.
NbPoints == {1, 2}

\* Values of nb_starts: one start, or a multi-start acquisition.
NbStarts == {1, 2}

\* Values of the device's saving_next_number when the session starts (the
\* first image number of the run).
FirstNumbers == {0, 3}

\* Values of saving_frame_per_file the device is configured with.
FramesPerFile == {1, 2}

\* The saving configurations of Saving after Saving.__init__ / Saving.prepare:
\* disabled saving keeps the defaults; enabled saving reads frames_per_file
\* and saving_managed_mode from the device.
SavingConfigs ==
    {[enabled |-> FALSE, managed |-> "SOFTWARE", fpf |-> 1]}
    \cup {[enabled |-> TRUE, managed |-> m, fpf |-> f] :
            m \in {"SOFTWARE", "HARDWARE"}, f \in FramesPerFile}

VARIABLES
    \* Acquisition fields
    trigger, nb_frames, nb_starts, nb_starts_called, stopped,
    acq_next_number, save_next_number, last_saved_number,
    \* Saving fields
    saving_enabled, frames_per_file, saving_managed_mode,
    \* the controller's reference to its session (Lima2DCtrl._acquisition)
    \* and the nb_points the session was constructed with
    ctrl_acquisition, nb_points,
    \* the legacy controller (class Lima of LimaCCDCtrl.py): its fields
    _last_image_read, _image_next_number, _nb_frames, _value_ref_enabled,
    _aborted_flg, _started_flg, _skipp_start, return_seq,
    \* Saving.prepare: the fields first_image_nb and windows_drive, the
    \* position of the caller inside the method (spc), the local
    \* saving_next_number of the warm-up loop (polled), the time elapsed
    \* since t0 in polling intervals (clock), the device accesses of the
    \* call in their order (accesses; Acquisition.prepare taken step by
    \* step logs its own there) and the keys of the dict Saving.config
    first_image_nb, windows_drive, spc, polled, clock, accesses, config,
    \* device attributes
    acq_status, ready_for_next_image, last_image_ready, last_image_saved,
    saving_next_number, acq_nb_frames,
    \* position of the caller inside start() or inside prepare()
    pc,
    \* history: frame indices delivered, file indices handed to
    \* Saving.filename, and the last completed call: its name, the device
    \* commands it issued (cmds), the device counter it read (last), how
    \* many items it returned (n), whether it repeated the call before it on
    \* the same counter value (again), the exception a poll ended with
    \* (raised, "none" for a normal return), and for a status call the
    \* status it returned (ret)
    delivered, emitted, op

session == <<trigger, nb_frames, nb_starts, nb_starts_called, stopped,
             acq_next_number, save_next_number, last_saved_number>>
saving == <<saving_enabled, frames_per_file, saving_managed_mode>>
device == <<acq_status, ready_for_next_image, last_image_ready,
            last_image_saved, saving_next_number, acq_nb_frames>>
saving_prepare == <<first_image_nb, windows_drive, spc, polled, clock,
                    accesses, config>>
legacy == <<_last_image_read, _image_next_number, _nb_frames,
            _value_ref_enabled, _aborted_flg, _started_flg, _skipp_start,
            return_seq>>
vars == <<session, saving, ctrl_acquisition, legacy, nb_points,
          saving_prepare, device, pc, delivered, emitted, op>>

\* ------------------------------------------------------------ pure helpers

\* Trigger.is_external: mode.startswith("EXTERNAL")
is_external(mode) ==
    mode \in {"EXTERNAL_TRIGGER", "EXTERNAL_TRIGGER_MULTI", "EXTERNAL_GATE"}

\* Trigger.is_internal_multi
is_internal_multi(mode) == mode = "INTERNAL_TRIGGER_MULTI"

\* Acquisition.get_next_number
get_next_number ==
    IF saving_enabled THEN save_next_number ELSE acq_next_number

\* calc_status without the test nb_starts_called == 0.
calc_status_unstarted(status, ready_for_next, idx_ready, idx_saved) ==
    IF status \notin {"Ready", "Running"} THEN status
    ELSE IF stopped THEN "Ready"
    ELSE
        LET idx_finished == IF saving_enabled THEN idx_saved ELSE idx_ready
            tentative == IF idx_finished < nb_frames - 1
                         THEN "Running" ELSE status
        IN  IF tentative = "Running"
            THEN IF is_internal_multi(trigger) /\ ready_for_next
                 THEN IF (idx_finished + 1) >= nb_starts_called
                         \/ saving_managed_mode = "HARDWARE"
                      THEN "Ready" ELSE tentative
                 ELSE IF is_external(trigger) /\ nb_starts > 1
                 THEN IF get_next_number + idx_finished >= get_next_number
                      THEN "Ready" ELSE tentative
                 ELSE tentative
            ELSE tentative

\* calc_status without the test of ready_for_next.
calc_status_no_ready_for_next(status, ready_for_next, idx_ready, idx_saved) ==
    IF status \notin {"Ready", "Running"} THEN status
    ELSE IF stopped THEN "Ready"
    ELSE IF nb_starts_called = 0 THEN "Ready"
    ELSE
        LET idx_finished == IF saving_enabled THEN idx_saved ELSE idx_ready
            tentative == IF idx_finished < nb_frames - 1
                         THEN "Running" ELSE status
        IN  IF tentative = "Running"
            THEN IF is_internal_multi(trigger)
                 THEN IF (idx_finished + 1) >= nb_starts_called
                         \/ saving_managed_mode = "HARDWARE"
                      THEN "Ready" ELSE tentative
                 ELSE IF is_external(trigger) /\ nb_starts > 1
                 THEN IF get_next_number + idx_finished >= get_next_number
                      THEN "Ready" ELSE tentative
                 ELSE tentative
            ELSE tentative

\* calc_status comparing idx_finished with <= instead of <.
calc_status_off_by_one(status, ready_for_next, idx_ready, idx_saved) ==
    IF status \notin {"Ready", "Running"} THEN status
    ELSE IF stopped THEN "Ready"
    ELSE IF nb_starts_called = 0 THEN "Ready"
    ELSE
        LET idx_finished == IF saving_enabled THEN idx_saved ELSE idx_ready
            tentative == IF idx_finished <= nb_frames - 1
                         THEN "Running" ELSE status
        IN  IF tentative = "Running"
            THEN IF is_internal_multi(trigger) /\ ready_for_next
                 THEN IF (idx_finished + 1) >= nb_starts_called
                         \/ saving_managed_mode = "HARDWARE"
                      THEN "Ready" ELSE tentative
                 ELSE IF is_external(trigger) /\ nb_starts > 1
                 THEN IF get_next_number + idx_finished >= get_next_number
                      THEN "Ready" ELSE tentative
                 ELSE tentative
            ELSE tentative

\* calc_status without the test of stopped.
calc_status_not_stopped(status, ready_for_next, idx_ready, idx_saved) ==
    IF status \notin {"Ready", "Running"} THEN status
    ELSE IF nb_starts_called = 0 THEN "Ready"
    ELSE
        LET idx_finished == IF saving_enabled THEN idx_saved ELSE idx_ready
            tentative == IF idx_finished < nb_frames - 1
                         THEN "Running" ELSE status
        IN  IF tentative = "Running"
            THEN IF is_internal_multi(trigger) /\ ready_for_next
                 THEN IF (idx_finished + 1) >= nb_starts_called
                         \/ saving_managed_mode = "HARDWARE"
                      THEN "Ready" ELSE tentative
                 ELSE IF is_external(trigger) /\ nb_starts > 1
                 THEN IF get_next_number + idx_finished >= get_next_number
                      THEN "Ready" ELSE tentative
                 ELSE tentative
            ELSE tentative

\* calc_status testing stopped before the pass-through of other statuses.
calc_status_stopped_first(status, ready_for_next, idx_ready, idx_saved) ==
    IF stopped THEN "Ready"
    ELSE calc_status_not_stopped(status, ready_for_next, idx_ready,
                                 idx_saved)

\* calc_status without the hardware-managed exception of the multi rule.
calc_status_no_hardware(status, ready_for_next, idx_ready, idx_saved) ==
    IF status \notin {"Ready", "Running"} THEN status
    ELSE IF stopped THEN "Ready"
    ELSE IF nb_starts_called = 0 THEN "Ready"
    ELSE
        LET idx_finished == IF saving_enabled THEN idx_saved ELSE idx_ready
            tentative == IF idx_finished < nb_frames - 1
                         THEN "Running" ELSE status
        IN  IF tentative = "Running"
            THEN IF is_internal_multi(trigger) /\ ready_for_next
                 THEN IF (idx_finished + 1) >= nb_starts_called
                      THEN "Ready" ELSE tentative
                 ELSE IF is_external(trigger) /\ nb_starts > 1
                 THEN IF get_next_number + idx_finished >= get_next_number
                      THEN "Ready" ELSE tentative
                 ELSE tentative
            ELSE tentative

\* Acquisition.calc_status
calc_status(status, ready_for_next, idx_ready, idx_saved) ==
    IF status \notin {"Ready", "Running"} THEN status
    ELSE IF stopped THEN "Ready"
    ELSE IF nb_starts_called = 0 THEN "Ready"
    ELSE
        LET idx_finished == IF saving_enabled THEN idx_saved ELSE idx_ready
            tentative == IF idx_finished < nb_frames - 1
                         THEN "Running" ELSE status
        IN  IF tentative = "Running"
            THEN IF is_internal_multi(trigger) /\ ready_for_next
                 THEN IF (idx_finished + 1) >= nb_starts_called
                         \/ saving_managed_mode = "HARDWARE"
                      THEN "Ready" ELSE tentative
                 ELSE IF is_external(trigger) /\ nb_starts > 1
                 THEN IF get_next_number + idx_finished >= get_next_number
                      THEN "Ready" ELSE tentative
                 ELSE tentative
            ELSE tentative

\* The device command readImageSeq(frame_start, frame_end): the buffer of
\* the frames frame_start .. frame_end - 1, each frame named by its index.
readImageSeq(frame_start, frame_end) ==
    [i \in 1..(frame_end - frame_start) |-> frame_start + i - 1]

\* decode reading every frame at the offset of the first one.
decode_mutant(buff, n) == [i \in 1..n |-> buff[1]]

\* LimaImageFormat.decode(buff, n): the first n frames of the buffer, frame
\* i read at its own offset.
decode(buff, n) == [i \in 1..n |-> buff[i]]

\* read_frames taking frame_end as the last frame wanted, not the one after.
read_frames_mutant(frame_start, frame_end) ==
    decode(readImageSeq(frame_start, frame_end + 1),
           frame_end + 1 - frame_start)

\* read_frames decoding one frame (decode's default n) whatever the range.
read_frames_first(frame_start, frame_end) ==
    decode(readImageSeq(frame_start, frame_end), 1)

\* Lima.read_frames
read_frames(frame_start, frame_end) ==
    decode(readImageSeq(frame_start, frame_end), frame_end - frame_start)

\* The file number computed in next_ref_frame / next_ref_frames for a
\* session whose _last_saved_number is last_saved:
\* int((last_saved + 1) / frames_per_file) + _save_next_number
file_nr(last_saved) ==
    ((last_saved + 1) \div frames_per_file) + save_next_number

\* The loop running range(1, n): one reference short.
ref_loop_range_from_one(n) ==
    [i \in 1..(n - 1) |-> file_nr(last_saved_number + i - 1)]

\* The loop of next_ref_frames: n references, _last_saved_number going up by
\* one per reference (range(n) is empty for n <= 0).
ref_loop(n) ==
    [i \in 1..n |-> file_nr(last_saved_number + i - 1)]

\* --------------------------------------------------------------- initial
\* The legacy controller after Lima.__init__, value references disabled.
LimaCCDCtrl_init ==
    /\ _last_image_read = -1
    /\ _image_next_number = 0
    /\ _nb_frames = 0
    /\ _value_ref_enabled = FALSE
    /\ _aborted_flg = FALSE
    /\ _started_flg = FALSE
    /\ _skipp_start = FALSE
    /\ return_seq = FALSE

\* The keys of Saving.config after a prepare() with saving enabled: those
\* saving_for_pattern returns and the two prepare() adds.
PatternKeys ==
    {"saving_directory", "saving_format", "saving_index_format",
     "saving_suffix", "saving_prefix", "saving_mode",
     "saving_overwrite_policy"}

\* Saving with no prepare() under way and first_image_nb, windows_drive as
\* Saving.__init__ leaves them; config as the last prepare() left it.
SavingPrepareIdle ==
    /\ config = IF saving_enabled THEN PatternKeys ELSE {"saving_mode"}
    /\ first_image_nb = 0
    /\ windows_drive = << >>
    /\ spc = "idle"
    /\ polled = -1
    /\ clock = 0
    /\ accesses = << >>

\* A frame count that leaves the number of starts out.
init_nb_frames_points(points, starts) == points

\* Acquisition.__init__: self.nb_frames = nb_points * nb_starts
init_nb_frames(points, starts) == points * starts

\* The session right after Acquisition.__init__ and prepare(), which leaves
\* the session's fields alone and has the device reset its counters.
Init ==
    /\ trigger \in Modes
    /\ nb_points \in NbPoints
    /\ nb_starts \in NbStarts
    /\ nb_frames = init_nb_frames(nb_points, nb_starts)
    /\ nb_starts_called = 0
    /\ stopped = FALSE
    /\ acq_next_number = 0
    /\ save_next_number = 0
    /\ last_saved_number = -1
    /\ \E cfg \in SavingConfigs :
            /\ saving_enabled = cfg.enabled
            /\ frames_per_file = cfg.fpf
            /\ saving_managed_mode = cfg.managed
    /\ acq_status = "Ready"
    /\ ready_for_next_image = TRUE
    /\ last_image_ready = -1
    /\ last_image_saved = -1
    /\ saving_next_number \in FirstNumbers
    /\ acq_nb_frames = nb_frames
    /\ ctrl_acquisition = "Acquisition"
    /\ LimaCCDCtrl_init
    /\ SavingPrepareIdle
    /\ pc = "idle"
    /\ delivered = << >>
    /\ emitted = << >>
    /\ op = [name |-> "init"]

\* ------------------------------------------------------- session operations

\* start reaching the device on its first two calls in an external mode.
starts_device_twice(mode, called) == (~is_external(mode)) \/ called < 2

\* start holding back only in EXTERNAL_TRIGGER (Trigger.is_external_start).
starts_device_external_start(mode, called) ==
    mode # "EXTERNAL_TRIGGER" \/ called < 1

\* The test of Acquisition.start for sending startAcq, on the trigger mode
\* and on nb_starts_called as the call finds it.
starts_device(mode, called) == (~is_external(mode)) \/ called < 1

\* Acquisition.start, first half: the startAcq command.  In an external
\* trigger mode only the first call reaches the device.  With saving enabled
\* the read of saving_next_number follows as a second device access
\* (StartSnapshot), and the device may save frames in between.
StartAcq ==
    /\ pc = "idle"
    /\ nb_starts_called < MaxCalls
    /\ IF starts_device(trigger, nb_starts_called)
       THEN /\ acq_status' = IF acq_status = "Fault" THEN "Fault" ELSE "Running"
            /\ ready_for_next_image' = FALSE
            /\ IF saving_enabled
               THEN /\ pc' = "start_snapshot"
                    /\ UNCHANGED <<nb_starts_called, op>>
               ELSE /\ pc' = "idle"
                    /\ nb_starts_called' = nb_starts_called + 1
                    /\ op' = [name |-> "start", cmds |-> <<"startAcq">>]
       ELSE /\ nb_starts_called' = nb_starts_called + 1
            /\ op' = [name |-> "start", cmds |-> << >>]
            /\ UNCHANGED <<acq_status, ready_for_next_image, pc>>
    /\ UNCHANGED <<trigger, nb_frames, nb_starts, stopped, acq_next_number,
                   save_next_number, last_saved_number, saving,
                   ctrl_acquisition, legacy, nb_points, saving_prepare,
                   last_image_ready, last_image_saved, saving_next_number,
                   acq_nb_frames, delivered, emitted>>

\* Acquisition.start, second half: the snapshot of saving_next_number and
\* the count of the call.
StartSnapshot ==
    /\ pc = "start_snapshot"
    /\ save_next_number' = saving_next_number
    /\ nb_starts_called' = nb_starts_called + 1
    /\ pc' = "idle"
    /\ op' = [name |-> "start", cmds |-> <<"startAcq">>]
    /\ UNCHANGED <<trigger, nb_frames, nb_starts, stopped, acq_next_number,
                   last_saved_number, saving, ctrl_acquisition, legacy,
                   nb_points, saving_prepare, device, delivered, emitted>>

\* Acquisition.stop: the stopAcq command, then stopped = True.
Stop ==
    /\ pc = "idle"
    /\ acq_status' = IF acq_status = "Fault" THEN "Fault" ELSE "Ready"
    /\ stopped' = TRUE
    /\ op' = [name |-> "stop", cmds |-> <<"stopAcq">>]
    /\ UNCHANGED <<trigger, nb_frames, nb_starts, nb_starts_called,
                   acq_next_number, save_next_number, last_saved_number,
                   saving, ctrl_acquisition, legacy, nb_points, saving_prepare,
                   ready_for_next_image, last_image_ready, last_image_saved,
                   saving_next_number, acq_nb_frames, pc, delivered, emitted>>

\* Acquisition.abort: the abortAcq command, then stopped = True.
Abort ==
    /\ pc = "idle"
    /\ acq_status' = IF acq_status = "Fault" THEN "Fault" ELSE "Ready"
    /\ stopped' = TRUE
    /\ op' = [name |-> "abort", cmds |-> <<"abortAcq">>]
    /\ UNCHANGED <<trigger, nb_frames, nb_starts, nb_starts_called,
                   acq_next_number, save_next_number, last_saved_number,
                   saving, ctrl_acquisition, legacy, nb_points, saving_prepare,
                   ready_for_next_image, last_image_ready, last_image_saved,
                   saving_next_number, acq_nb_frames, pc, delivered, emitted>>

\* The test letting the counter go one past the last ready frame.
no_frame_mutant(n, last) == n > last + 1

\* The test of next_frame / next_frames for "no frame available yet".
no_frame(n, last) == n > last

\* Acquisition.next_frame: zero or one frame (None is the empty sequence).
NextFrame ==
    /\ pc = "idle"
    /\ LET last == last_image_ready
           n == acq_next_number
           again == /\ op.name = "next_frame"
                    /\ op.raised = "none"
                    /\ op.last = last
       IN  IF no_frame(n, last)
           THEN /\ op' = [name |-> "next_frame", last |-> last, n |-> 0,
                          again |-> again, cmds |-> << >>,
                          raised |-> "none"]
                /\ UNCHANGED <<acq_next_number, delivered>>
           ELSE LET frame == read_frames(n, n + 1)[1]
                IN  /\ acq_next_number' = acq_next_number + 1
                    /\ delivered' = Append(delivered, frame)
                    /\ op' = [name |-> "next_frame", last |-> last, n |-> 1,
                              again |-> again, cmds |-> <<"readImageSeq">>,
                              raised |-> "none"]
    /\ UNCHANGED <<trigger, nb_frames, nb_starts, nb_starts_called, stopped,
                   save_next_number, last_saved_number, saving,
                   ctrl_acquisition, legacy, nb_points, saving_prepare, device,
                   pc, emitted>>

\* Acquisition.next_frames: the frames start .. last.
NextFrames ==
    /\ pc = "idle"
    /\ LET last == last_image_ready
           start == acq_next_number
           again == /\ op.name = "next_frames"
                    /\ op.raised = "none"
                    /\ op.last = last
       IN  IF no_frame(start, last)
           THEN /\ op' = [name |-> "next_frames", last |-> last, n |-> 0,
                          again |-> again, cmds |-> << >>,
                          raised |-> "none"]
                /\ UNCHANGED <<acq_next_number, delivered>>
           ELSE LET frames == read_frames(start, last + 1)
                IN  /\ acq_next_number' = acq_next_number + Len(frames)
                    /\ delivered' = delivered \o frames
                    /\ op' = [name |-> "next_frames", last |-> last,
                              n |-> Len(frames), again |-> again,
                              cmds |-> <<"readImageSeq">>,
                              raised |-> "none"]
    /\ UNCHANGED <<trigger, nb_frames, nb_starts, nb_starts_called, stopped,
                   save_next_number, last_saved_number, saving,
                   ctrl_acquisition, legacy, nb_points, saving_prepare, device,
                   pc, emitted>>

\* Acquisition.next_ref_frame: one reference per call; only the
\* hardware-managed mode counts it in _last_saved_number.  Saving.filename
\* needs the saving_format of Saving.config.
NextRefFrame ==
    /\ pc = "idle"
    /\ "saving_format" \in config
    /\ Len(emitted) < MaxRefs
    /\ LET hw == saving_managed_mode = "HARDWARE"
           n == IF hw THEN file_nr(last_saved_number) ELSE save_next_number
       IN  /\ last_saved_number' =
                IF hw THEN last_saved_number + 1 ELSE last_saved_number
           /\ emitted' = Append(emitted, n)
           /\ op' = [name |-> "next_ref_frame", cmds |-> << >>,
                     raised |-> "none"]
    /\ UNCHANGED <<trigger, nb_frames, nb_starts, nb_starts_called, stopped,
                   acq_next_number, save_next_number, saving, ctrl_acquisition,
                   legacy, nb_points, saving_prepare, device, pc, delivered>>

\* The count taking _last_saved_number for the next frame, not the last.
ref_count_mutant(lima_last_image_saved) ==
    lima_last_image_saved - last_saved_number + 1

\* The number of references next_ref_frames computes from the value of
\* last_image_saved it read.
ref_count(lima_last_image_saved) ==
    lima_last_image_saved - last_saved_number

\* Acquisition.next_ref_frames: one reference per newly saved frame.
\* Saving.filename, called when there is one, needs the saving_format of
\* Saving.config.
NextRefFrames ==
    /\ pc = "idle"
    /\ LET lima_last_image_saved == last_image_saved
           n == ref_count(lima_last_image_saved)
           refs == ref_loop(n)
       IN  /\ n <= 0 \/ "saving_format" \in config
           /\ last_saved_number' = last_saved_number + Len(refs)
           /\ emitted' = emitted \o refs
           /\ op' = [name |-> "next_ref_frames",
                     last |-> lima_last_image_saved, n |-> Len(refs),
                     cmds |-> << >>, raised |-> "none"]
    /\ UNCHANGED <<trigger, nb_frames, nb_starts, nb_starts_called, stopped,
                   acq_next_number, save_next_number, saving, ctrl_acquisition,
                   legacy, nb_points, saving_prepare, device, pc, delivered>>

\* Acquisition.next_ref_frame with no saving_format in Saving.config (the
\* dict of Saving.__init__, or the one a prepare() with saving disabled
\* leaves): Saving.filename ends with a KeyError, after the hardware-managed
\* mode has counted the reference in _last_saved_number.
NextRefFrameNoConfig ==
    /\ pc = "idle"
    /\ "saving_format" \notin config
    /\ last_saved_number < MaxRefs - 1
    /\ last_saved_number' =
         IF saving_managed_mode = "HARDWARE"
         THEN last_saved_number + 1 ELSE last_saved_number
    /\ op' = [name |-> "next_ref_frame", cmds |-> << >>,
              raised |-> "KeyError"]
    /\ UNCHANGED <<trigger, nb_frames, nb_starts, nb_starts_called, stopped,
                   acq_next_number, save_next_number, saving, ctrl_acquisition,
                   legacy, nb_points, saving_prepare, device, pc, delivered,
                   emitted>>

\* Acquisition.next_ref_frames with a frame saved and no saving_format in
\* Saving.config: the first Saving.filename of the loop ends with a
\* KeyError, before anything is counted.
NextRefFramesNoConfig ==
    /\ pc = "idle"
    /\ ref_count(last_image_saved) > 0
    /\ "saving_format" \notin config
    /\ op' = [name |-> "next_ref_frames", last |-> last_image_saved,
              cmds |-> << >>, raised |-> "KeyError"]
    /\ UNCHANGED <<session, saving, ctrl_acquisition, legacy, nb_points,
                   saving_prepare, device, pc, delivered, emitted>>

\* Where a poll can fail on the device: the read of the counter attribute,
\* the readImageSeq command, its format tag (the assert of Lima.read_frames)
\* and the decoding of the buffer.
PollFailures == {"read_attribute", "readImageSeq", "DATA_ARRAY", "decode"}

\* A poll counting the frames it asked for before it has them.
acq_after_raise_counted(n, asked) == n + asked

\* _acq_next_number after a frame poll that raised: the exception leaves
\* the function before the statement adding the frames to the counter.
acq_after_raise(n, asked) == n

\* Acquisition.next_frame raising: on the attribute read, or on the
\* transfer of frame n when there is one to read.
NextFrameFail ==
    /\ pc = "idle"
    /\ \E failure \in PollFailures :
          LET last == last_image_ready
              n == acq_next_number
              transfer == failure # "read_attribute"
          IN  /\ transfer => ~no_frame(n, last)
              /\ acq_next_number' = acq_after_raise(acq_next_number, 1)
              /\ op' = [name |-> "next_frame", raised |-> failure,
                        cmds |-> IF transfer THEN <<"readImageSeq">>
                                 ELSE << >>]
    /\ UNCHANGED <<trigger, nb_frames, nb_starts, nb_starts_called, stopped,
                   save_next_number, last_saved_number, saving,
                   ctrl_acquisition, legacy, nb_points, saving_prepare, device,
                   pc, delivered, emitted>>

\* Acquisition.next_frames raising: on the attribute read, or on the
\* transfer of the frames start .. last when there are some to read.
NextFramesFail ==
    /\ pc = "idle"
    /\ \E failure \in PollFailures :
          LET last == last_image_ready
              start == acq_next_number
              transfer == failure # "read_attribute"
          IN  /\ transfer => ~no_frame(start, last)
              /\ acq_next_number' =
                    acq_after_raise(acq_next_number,
                                    IF transfer THEN last + 1 - start ELSE 0)
              /\ op' = [name |-> "next_frames", raised |-> failure,
                        cmds |-> IF transfer THEN <<"readImageSeq">>
                                 ELSE << >>]
    /\ UNCHANGED <<trigger, nb_frames, nb_starts, nb_starts_called, stopped,
                   save_next_number, last_saved_number, saving,
                   ctrl_acquisition, legacy, nb_points, saving_prepare, device,
                   pc, delivered, emitted>>

\* Acquisition.next_ref_frames raising on the read of last_image_saved, its
\* only access to the device and its first statement.  (next_ref_frame does
\* not access the device at all.)
NextRefFramesFail ==
    /\ pc = "idle"
    /\ op' = [name |-> "next_ref_frames", raised |-> "read_attribute",
              cmds |-> << >>]
    /\ UNCHANGED <<session, saving, ctrl_acquisition, legacy, nb_points,
                   saving_prepare, device, pc, delivered, emitted>>

\* StopOne calling stop() on whatever _acquisition is: without a session
\* the call ends with an AttributeError and the device is not told.
StopOne_no_fallback ==
    /\ pc = "idle"
    /\ IF ctrl_acquisition # "None"
       THEN Stop
       ELSE /\ op' = [name |-> "StopOne", cmds |-> << >>]
            /\ UNCHANGED <<session, saving, ctrl_acquisition, legacy,
                           nb_points, saving_prepare, device, pc, delivered,
                           emitted>>

\* Lima2DCtrl.StopOne: stop() of the session when the controller has one,
\* else the stopAcq command sent to the device directly.
StopOne ==
    /\ pc = "idle"
    /\ IF ctrl_acquisition # "None"
       THEN Stop
       ELSE /\ acq_status' =
                  IF acq_status = "Fault" THEN "Fault" ELSE "Ready"
            /\ op' = [name |-> "StopOne", cmds |-> <<"stopAcq">>]
            /\ UNCHANGED <<session, saving, ctrl_acquisition, legacy,
                           nb_points, saving_prepare, ready_for_next_image,
                           last_image_ready, last_image_saved,
                           saving_next_number, acq_nb_frames, pc, delivered,
                           emitted>>

\* Lima2DCtrl.AbortOne: abort() of the session when the controller has
\* one, else the abortAcq command sent to the device directly.
AbortOne ==
    /\ pc = "idle"
    /\ IF ctrl_acquisition # "None"
       THEN Abort
       ELSE /\ acq_status' =
                  IF acq_status = "Fault" THEN "Fault" ELSE "Ready"
            /\ op' = [name |-> "AbortOne", cmds |-> <<"abortAcq">>]
            /\ UNCHANGED <<session, saving, ctrl_acquisition, legacy,
                           nb_points, saving_prepare, ready_for_next_image,
                           last_image_ready, last_image_saved,
                           saving_next_number, acq_nb_frames, pc, delivered,
                           emitted>>

\* Acquisition.prepare on a device at rest: acq_nb_frames (with the
\* exposure, the latency and the trigger mode) written in one batch, the
\* prepareAcq command, and with saving enabled the wait for last_image_saved
\* to read -1.  prepareAcq has the device drop the frames of the acquisition
\* before; the method assigns no field of the session.
Prepare ==
    /\ pc = "idle"
    /\ acq_status = "Ready"
    /\ acq_nb_frames' = nb_frames
    /\ ready_for_next_image' = TRUE
    /\ last_image_ready' = -1
    /\ last_image_saved' = -1
    /\ op' = [name |-> "prepare", cmds |-> <<"prepareAcq">>]
    /\ UNCHANGED <<session, saving, ctrl_acquisition, legacy, nb_points,
                   saving_prepare, acq_status, saving_next_number, pc,
                   delivered, emitted>>

\* A status call that counts the frames it saw as delivered.
Status_consuming ==
    /\ pc = "idle"
    /\ acq_next_number' = last_image_ready + 1
    /\ op' = [name |-> "calc_status", cmds |-> << >>,
              ret |-> calc_status(acq_status, ready_for_next_image,
                                  last_image_ready, last_image_saved)]
    /\ UNCHANGED <<trigger, nb_frames, nb_starts, nb_starts_called, stopped,
                   save_next_number, last_saved_number, saving,
                   ctrl_acquisition, legacy, nb_points, saving_prepare, device,
                   pc, delivered, emitted>>

\* Lima.get_status followed by Acquisition.calc_status on what it read.
Status ==
    /\ pc = "idle"
    /\ op' = [name |-> "calc_status", cmds |-> << >>,
              ret |-> calc_status(acq_status, ready_for_next_image,
                                  last_image_ready, last_image_saved)]
    /\ UNCHANGED <<session, saving, ctrl_acquisition, legacy, nb_points,
                   saving_prepare, device, pc, delivered, emitted>>

\* ----------------------------------------------------------- Saving.prepare

\* The 2.5 s budget of the warm-up loop, in polling intervals.
Budget == 3

\* Values of Saving.first_image_nb: the default and a first number asked for.
FirstImageNbs == {0, 5}

\* The attributes Saving.prepare writes one by one (attr_ordered).
attr_ordered ==
    <<"saving_mode", "saving_overwrite_policy", "saving_directory",
      "saving_format", "saving_suffix", "saving_index_format",
      "saving_prefix">>

\* One device access of Saving.prepare, as accesses records it.
ReadAttr(name) == [kind |-> "read", attr |-> name]
WriteAttr(name) == [kind |-> "write", attr |-> name]
ReadNumber(v) == [kind |-> "read", attr |-> "saving_next_number", value |-> v]
WriteNumber(v) ==
    [kind |-> "write", attr |-> "saving_next_number", value |-> v]

\* A warm-up run for every first image number, the default 0 included.
warm_up_needed_always(nb) == TRUE

\* The test of Saving.prepare for running the warm-up.
warm_up_needed(nb) == nb # 0

\* A loop writing the first number over every number the device reports.
number_is_default_or_more(n) == n >= 0

\* The test of the warm-up loop for writing the first image number.
number_is_default(n) == n = 0

\* A clock that stands still over the sleep of the loop.
slept_frozen(dt) == 0

\* The time one turn of the loop takes: the sleep of 0.03 s, at least.
slept(dt) == dt

\* Saving.prepare up to the warm-up.  With saving disabled it writes
\* saving_mode and returns.  Otherwise it reads saving_frame_per_file and
\* saving_managed_mode into the fields of Saving and writes the attributes
\* of attr_ordered; the warm-up follows when first_image_nb is not 0.
SavingPrepare ==
    /\ spc \in {"idle", "done"}
    /\ polled' = -1
    /\ clock' = 0
    /\ IF ~saving_enabled
       THEN /\ config' = {"saving_mode"}
            /\ accesses' = <<WriteAttr("saving_mode")>>
            /\ spc' = "done"
            /\ UNCHANGED <<frames_per_file, saving_managed_mode>>
       ELSE /\ config' = PatternKeys
            /\ frames_per_file' \in FramesPerFile
            /\ saving_managed_mode' \in {"SOFTWARE", "HARDWARE"}
            /\ accesses' =
                  <<ReadAttr("saving_frame_per_file"),
                    ReadAttr("saving_managed_mode")>>
                  \o [i \in DOMAIN attr_ordered |->
                        WriteAttr(attr_ordered[i])]
            /\ spc' = IF warm_up_needed(first_image_nb)
                      THEN "sentinel" ELSE "done"
    /\ UNCHANGED <<session, saving_enabled, ctrl_acquisition, legacy,
                   nb_points, first_image_nb, windows_drive, device, pc,
                   delivered, emitted, op>>

\* The warm-up: the sentinel -1 written to saving_next_number.
WriteSentinel ==
    /\ spc = "sentinel"
    /\ saving_next_number' = -1
    /\ accesses' = Append(accesses, WriteNumber(-1))
    /\ spc' = "prefix"
    /\ UNCHANGED <<session, saving, ctrl_acquisition, legacy, nb_points,
                   first_image_nb, windows_drive, polled, clock, config,
                   acq_status,
                   ready_for_next_image, last_image_ready, last_image_saved,
                   acq_nb_frames, pc, delivered, emitted, op>>

\* The warm-up: after the settle delay saving_prefix is written again and
\* the loop is entered with t0 taken and the local number at -1.
WritePrefix ==
    /\ spc = "prefix"
    /\ accesses' = Append(accesses, WriteAttr("saving_prefix"))
    /\ polled' = -1
    /\ clock' = 0
    /\ spc' = "loop"
    /\ UNCHANGED <<session, saving, ctrl_acquisition, legacy, nb_points,
                   first_image_nb, windows_drive, config, device, pc,
                   delivered, emitted, op>>

\* One turn of the warm-up loop: saving_next_number is read, the first
\* image number is written over it when it reads 0, and the loop sleeps.
WarmUpPoll ==
    /\ spc = "loop"
    /\ polled = -1
    /\ clock < Budget
    /\ polled' = saving_next_number
    /\ IF number_is_default(saving_next_number)
       THEN /\ saving_next_number' = first_image_nb
            /\ accesses' = accesses \o <<ReadNumber(saving_next_number),
                                         WriteNumber(first_image_nb)>>
       ELSE /\ accesses' = Append(accesses, ReadNumber(saving_next_number))
            /\ UNCHANGED saving_next_number
    /\ \E dt \in {1, 2} : clock' = clock + slept(dt)
    /\ UNCHANGED <<session, saving, ctrl_acquisition, legacy, nb_points,
                   first_image_nb, windows_drive, spc, config, acq_status,
                   ready_for_next_image, last_image_ready, last_image_saved,
                   acq_nb_frames, pc, delivered, emitted, op>>

\* The loop test failing: a number other than -1 was read, or the budget
\* is spent.  Saving.prepare returns.
WarmUpExit ==
    /\ spc = "loop"
    /\ ~(polled = -1 /\ clock < Budget)
    /\ spc' = "done"
    /\ UNCHANGED <<session, saving, ctrl_acquisition, legacy, nb_points,
                   first_image_nb, windows_drive, polled, clock, accesses,
                   config, device, pc, delivered, emitted, op>>

\* The device, some time after saving_prefix was written, has counted the
\* files of the directory: saving_next_number leaves -1 for 0 or for the
\* number after the last file.
DevRenumber ==
    /\ spc = "loop"
    /\ saving_next_number = -1
    /\ saving_next_number' \in FirstNumbers
    /\ UNCHANGED <<session, saving, ctrl_acquisition, legacy, nb_points,
                   saving_prepare, acq_status, ready_for_next_image,
                   last_image_ready, last_image_saved, acq_nb_frames, pc,
                   delivered, emitted, op>>

\* ------------------------------------------------------------- the device

\* The device takes one more frame of the acq_nb_frames it was prepared for.
DevAcquire ==
    /\ acq_status = "Running"
    /\ last_image_ready < acq_nb_frames - 1
    /\ last_image_ready' = last_image_ready + 1
    /\ ready_for_next_image' = TRUE
    /\ UNCHANGED <<session, saving, ctrl_acquisition, legacy, nb_points,
                   saving_prepare, acq_status, last_image_saved,
                   saving_next_number, acq_nb_frames, pc, delivered, emitted,
                   op>>

\* The device, in the saving_mode AUTO_FRAME a prepare() with saving
\* enabled wrote, saves the next ready frame; saving_next_number goes up
\* when a file is complete (every frame when there is one frame per file).
DevSave ==
    /\ config = PatternKeys
    /\ acq_status # "Fault"
    /\ last_image_saved < last_image_ready
    /\ last_image_saved' = last_image_saved + 1
    /\ saving_next_number' =
         IF (last_image_saved + 2) % frames_per_file = 0
         THEN saving_next_number + 1 ELSE saving_next_number
    /\ UNCHANGED <<session, saving, ctrl_acquisition, legacy, nb_points,
                   saving_prepare, acq_status, ready_for_next_image,
                   last_image_ready, acq_nb_frames, pc, delivered, emitted,
                   op>>

\* The device leaves Running: the acquisition is over, or it reports Ready
\* between the starts of a multi-start sequence.
DevReady ==
    /\ acq_status = "Running"
    /\ acq_status' = "Ready"
    /\ UNCHANGED <<session, saving, ctrl_acquisition, legacy, nb_points,
                   saving_prepare, ready_for_next_image, last_image_ready,
                   last_image_saved, saving_next_number, acq_nb_frames, pc,
                   delivered, emitted, op>>

\* The device fails while acquiring.
DevFault ==
    /\ acq_status = "Running"
    /\ acq_status' = "Fault"
    /\ UNCHANGED <<session, saving, ctrl_acquisition, legacy, nb_points,
                   saving_prepare, ready_for_next_image, last_image_ready,
                   last_image_saved, saving_next_number, acq_nb_frames, pc,
                   delivered, emitted, op>>

\* Another client of the device sends prepareAcq while the session lives:
\* the device at rest drops its frames and its counters read -1 again.
DevReset ==
    /\ acq_status = "Ready"
    /\ last_image_ready >= 0
    /\ ready_for_next_image' = TRUE
    /\ last_image_ready' = -1
    /\ last_image_saved' = -1
    /\ UNCHANGED <<session, saving, ctrl_acquisition, legacy, nb_points,
                   saving_prepare, acq_status, saving_next_number,
                   acq_nb_frames, pc, delivered, emitted, op>>

Next ==
    \/ StartAcq
    \/ StartSnapshot
    \/ Stop
    \/ Abort
    \/ NextFrame
    \/ NextFrames
    \/ NextRefFrame
    \/ NextRefFrames
    \/ DevAcquire
    \/ DevSave
    \/ DevReady
    \/ DevFault

Spec == Init /\ [][Next]_vars

\* The session as the frame-retrieval path sees it: start, stop, abort and
\* the frame polls, against the device.
FramesNext ==
    \/ StartAcq
    \/ StartSnapshot
    \/ Stop
    \/ Abort
    \/ NextFrame
    \/ NextFrames
    \/ DevAcquire
    \/ DevSave
    \/ DevReady

SpecFrames == Init /\ [][FramesNext]_vars

\* The session as the reference path sees it: any sequence of start calls
\* and reference polls, against the device.
RefsNext ==
    \/ StartAcq
    \/ StartSnapshot
    \/ NextRefFrame
    \/ NextRefFrames
    \/ DevAcquire
    \/ DevSave
    \/ DevReady

SpecRefs == Init /\ [][RefsNext]_vars

\* The sessions of a step scan: one frame per start, the device numbering
\* its files from 0.
InitStep ==
    /\ Init
    /\ nb_frames = nb_starts
    /\ saving_next_number = 0

\* The whole life of a session: prepare, start, stop, abort, the polls of
\* everything new and the status calls in any order, against the device.
StopNext ==
    \/ Prepare
    \/ StartAcq
    \/ StartSnapshot
    \/ Stop
    \/ Abort
    \/ NextFrames
    \/ NextRefFrames
    \/ Status
    \/ DevAcquire
    \/ DevSave
    \/ DevReady
    \/ DevFault

SpecStop == InitStep /\ [][StopNext]_vars

\* The session right after Acquisition.__init__, before any prepare(): the
\* device at rest, holding what an acquisition before this one left in
\* acq_nb_frames and in its counters.
InitNew ==
    /\ trigger \in Modes
    /\ nb_points \in NbPoints
    /\ nb_starts \in NbStarts
    /\ nb_frames = init_nb_frames(nb_points, nb_starts)
    /\ nb_starts_called = 0
    /\ stopped = FALSE
    /\ acq_next_number = 0
    /\ save_next_number = 0
    /\ last_saved_number = -1
    /\ \E cfg \in SavingConfigs :
            /\ saving_enabled = cfg.enabled
            /\ frames_per_file = cfg.fpf
            /\ saving_managed_mode = cfg.managed
    /\ acq_status = "Ready"
    /\ ready_for_next_image = TRUE
    /\ acq_nb_frames \in {p * s : p \in NbPoints, s \in NbStarts}
    /\ last_image_ready \in {-1, acq_nb_frames - 1}
    /\ last_image_saved = IF saving_enabled THEN last_image_ready ELSE -1
    /\ saving_next_number \in FirstNumbers
    /\ ctrl_acquisition = "Acquisition"
    /\ LimaCCDCtrl_init
    /\ SavingPrepareIdle
    /\ pc = "idle"
    /\ delivered = << >>
    /\ emitted = << >>
    /\ op = [name |-> "init"]

\* A session prepared any number of times, before and after its starts, its
\* stops and its frame polls, as the per-point LoadOne of the controller
\* does (SpecStop has prepare follow the reference polls).
PrepareNext ==
    \/ Prepare
    \/ StartAcq
    \/ StartSnapshot
    \/ Stop
    \/ Abort
    \/ NextFrame
    \/ NextFrames
    \/ DevAcquire
    \/ DevReady

SpecPrepare == InitNew /\ [][PrepareNext]_vars

\* The polls against a device that can fail any of their accesses: start,
\* the frame and reference polls returning or raising, and the device.
FaultsNext ==
    \/ StartAcq
    \/ StartSnapshot
    \/ NextFrame
    \/ NextFrames
    \/ NextRefFrames
    \/ NextFrameFail
    \/ NextFramesFail
    \/ NextRefFramesFail
    \/ DevAcquire
    \/ DevSave
    \/ DevReady

SpecFaults == InitStep /\ [][FaultsNext]_vars

\* The polls against a device that is reset behind the session's back.
ResetNext ==
    \/ StartAcq
    \/ StartSnapshot
    \/ NextFrames
    \/ NextRefFrames
    \/ DevAcquire
    \/ DevSave
    \/ DevReady
    \/ DevReset

SpecReset == InitStep /\ [][ResetNext]_vars

\* The controller with or without a session.  With one, the state is Init.
\* Without one (_acquisition is None, as Lima2DCtrl.__init__ leaves it) the
\* session variables are not read: they hold the values of a session never
\* used, and the device is at rest or running for another client.
InitCtrl ==
    \/ Init
    \/ /\ ctrl_acquisition = "None"
       /\ LimaCCDCtrl_init
       /\ trigger = "INTERNAL_TRIGGER"
       /\ nb_points = 1
       /\ nb_starts = 1
       /\ nb_frames = init_nb_frames(nb_points, nb_starts)
       /\ nb_starts_called = 0
       /\ stopped = FALSE
       /\ acq_next_number = 0
       /\ save_next_number = 0
       /\ last_saved_number = -1
       /\ \E cfg \in SavingConfigs :
               /\ saving_enabled = cfg.enabled
               /\ frames_per_file = cfg.fpf
               /\ saving_managed_mode = cfg.managed
       /\ acq_status \in {"Ready", "Running"}
       /\ ready_for_next_image = TRUE
       /\ acq_nb_frames \in {p * s : p \in NbPoints, s \in NbStarts}
       /\ last_image_ready \in -1..(acq_nb_frames - 1)
       /\ last_image_saved = -1
       /\ saving_next_number \in FirstNumbers
       /\ SavingPrepareIdle
       /\ pc = "idle"
       /\ delivered = << >>
       /\ emitted = << >>
       /\ op = [name |-> "init"]

\* StopOne and AbortOne in any state and any number of times, between the
\* starts and frame polls of the session when there is one, against the
\* device.
CtrlNext ==
    \/ StopOne
    \/ AbortOne
    \/ (ctrl_acquisition # "None" /\ StartAcq)
    \/ (ctrl_acquisition # "None" /\ StartSnapshot)
    \/ (ctrl_acquisition # "None" /\ NextFrames)
    \/ DevAcquire
    \/ DevReady
    \/ DevFault

SpecCtrl == InitCtrl /\ [][CtrlNext]_vars

\* The caller assigning Saving.enabled between two calls.
SetEnabled ==
    /\ pc = "idle"
    /\ spc \in {"idle", "done"}
    /\ saving_enabled' = ~saving_enabled
    /\ op' = [name |-> "enabled"]
    /\ UNCHANGED <<session, frames_per_file, saving_managed_mode,
                   ctrl_acquisition, legacy, nb_points, saving_prepare, device,
                   pc, delivered, emitted>>

\* A session of one frame, in an internal or an external mode, on a Saving
\* object as Saving.__init__ leaves it: saving disabled, an empty config.
InitDisabled ==
    /\ trigger \in {"INTERNAL_TRIGGER_MULTI", "EXTERNAL_TRIGGER"}
    /\ nb_points = 1
    /\ nb_starts = 1
    /\ nb_frames = init_nb_frames(nb_points, nb_starts)
    /\ nb_starts_called = 0
    /\ stopped = FALSE
    /\ acq_next_number = 0
    /\ save_next_number = 0
    /\ last_saved_number = -1
    /\ saving_enabled = FALSE
    /\ frames_per_file = 1
    /\ saving_managed_mode = "SOFTWARE"
    /\ first_image_nb = 0
    /\ windows_drive = << >>
    /\ spc = "idle"
    /\ polled = -1
    /\ clock = 0
    /\ accesses = << >>
    /\ config = {}
    /\ acq_status = "Ready"
    /\ ready_for_next_image = TRUE
    /\ last_image_ready = -1
    /\ last_image_saved = -1
    /\ saving_next_number = 0
    /\ acq_nb_frames = nb_frames
    /\ ctrl_acquisition = "Acquisition"
    /\ LimaCCDCtrl_init
    /\ pc = "idle"
    /\ delivered = << >>
    /\ emitted = << >>
    /\ op = [name |-> "init"]

\* The session operations and the polls, with Saving enabled, disabled and
\* prepared in between by the caller.
DisabledNext ==
    \/ SetEnabled
    \/ SavingPrepare
    \/ StartAcq
    \/ StartSnapshot
    \/ Stop
    \/ Abort
    \/ NextFrame
    \/ NextFrames
    \/ NextRefFrame
    \/ NextRefFrameNoConfig
    \/ NextRefFrames
    \/ NextRefFramesNoConfig
    \/ DevAcquire
    \/ DevSave
    \/ DevReady

SpecDisabled == InitDisabled /\ [][DisabledNext]_vars

\* No session and a device at rest: the values the session variables and
\* the acquisition attributes keep while only Saving or the controller's
\* configuration acts.
AcquisitionIdle ==
    /\ ctrl_acquisition = "None"
    /\ LimaCCDCtrl_init
    /\ trigger = "INTERNAL_TRIGGER"
    /\ nb_points = 1
    /\ nb_starts = 1
    /\ nb_frames = init_nb_frames(nb_points, nb_starts)
    /\ nb_starts_called = 0
    /\ stopped = FALSE
    /\ acq_next_number = 0
    /\ save_next_number = 0
    /\ last_saved_number = -1
    /\ acq_status = "Ready"
    /\ ready_for_next_image = TRUE
    /\ last_image_ready = -1
    /\ last_image_saved = -1
    /\ acq_nb_frames = nb_frames
    /\ pc = "idle"
    /\ delivered = << >>
    /\ emitted = << >>

\* Saving after Saving.__init__, with enabled and first_image_nb set by the
\* caller, on a device that numbers its next file 0 or higher.
InitWarm ==
    /\ AcquisitionIdle
    /\ op = [name |-> "init"]
    /\ saving_enabled \in BOOLEAN
    /\ frames_per_file = 1
    /\ saving_managed_mode = "SOFTWARE"
    /\ first_image_nb \in FirstImageNbs
    /\ windows_drive = << >>
    /\ spc = "idle"
    /\ polled = -1
    /\ clock = 0
    /\ accesses = << >>
    /\ config = {}
    /\ saving_next_number \in FirstNumbers

\* The steps of Saving.prepare after its entry: each is taken once the
\* caller is at it.
WarmUpSteps ==
    \/ WriteSentinel
    \/ WritePrefix
    \/ WarmUpPoll
    \/ WarmUpExit

\* Saving.prepare called any number of times, against a device that
\* renumbers at its own pace or not at all.
WarmNext ==
    \/ SavingPrepare
    \/ WarmUpSteps
    \/ DevRenumber

SpecWarm == InitWarm /\ [][WarmNext]_vars /\ WF_vars(WarmUpSteps)

\* ------------------------------------------------- Lima2DCtrl.PrepareOne

\* The synchronization modes of sardana (AcqSynch).
AcqSynch ==
    {"SoftwareTrigger", "SoftwareGate", "SoftwareStart",
     "HardwareTrigger", "HardwareGate", "HardwareStart"}

\* TRIGGER_MAP of LimaCtrl.py: five keys.
TRIGGER_MAP ==
    [SoftwareStart |-> "INTERNAL_TRIGGER_MULTI",
     SoftwareGate |-> "INTERNAL_TRIGGER_MULTI",
     HardwareStart |-> "EXTERNAL_TRIGGER",
     HardwareTrigger |-> "EXTERNAL_TRIGGER_MULTI",
     HardwareGate |-> "EXTERNAL_GATE"]

\* The lists the device can answer for the capability acq_trigger_mode.
Capabilities == SUBSET Modes

\* The mode PrepareOne goes on with after the capability test: only
\* INTERNAL_TRIGGER_MULTI is looked up in the list of the device.
degrade(trigger_mode, capabilities) ==
    IF trigger_mode = "INTERNAL_TRIGGER_MULTI"
       /\ trigger_mode \notin capabilities
    THEN "INTERNAL_TRIGGER"
    ELSE trigger_mode

\* Lima2DCtrl.PrepareOne.  The synchronization, the capability list of the
\* device and whether the camera is of a model that does not honour
\* INTERNAL_TRIGGER_MULTI (flagged) are the inputs; flagged is read nowhere.
\* A synchronization that is no key of TRIGGER_MAP ends the call with a
\* KeyError.  Otherwise the mode is resolved and the call ends at the
\* construction of the session with a NameError (LimaCtrl.py binds neither
\* Acquisition nor latency): _acquisition is not assigned, nothing is sent
\* to the device.  op keeps the local trigger_mode at the raise.
PrepareOne ==
    /\ pc = "idle"
    /\ \E synchronization \in AcqSynch, capabilities \in Capabilities,
          flagged \in BOOLEAN :
          \/ /\ synchronization \notin DOMAIN TRIGGER_MAP
             /\ op' = [name |-> "PrepareOne",
                       synchronization |-> synchronization,
                       capabilities |-> capabilities, flagged |-> flagged,
                       trigger_mode |-> "unbound", cmds |-> << >>,
                       raised |-> "KeyError"]
          \/ /\ synchronization \in DOMAIN TRIGGER_MAP
             /\ op' = [name |-> "PrepareOne",
                       synchronization |-> synchronization,
                       capabilities |-> capabilities, flagged |-> flagged,
                       trigger_mode |->
                           degrade(TRIGGER_MAP[synchronization],
                                   capabilities),
                       cmds |-> << >>, raised |-> "NameError"]
    /\ UNCHANGED <<session, saving, ctrl_acquisition, legacy, nb_points,
                   saving_prepare, device, pc, delivered, emitted>>

\* The controller after Lima2DCtrl.__init__: no session, Saving as
\* Saving.__init__ leaves it.
InitResolve ==
    /\ InitWarm
    /\ ~saving_enabled
    /\ first_image_nb = 0
    /\ saving_next_number = 0

\* PrepareOne at every synchronization, with StopOne and AbortOne of the
\* controller in between.
ResolveNext ==
    \/ PrepareOne
    \/ StopOne
    \/ AbortOne

SpecResolve == InitResolve /\ [][ResolveNext]_vars

\* -------------------------------------------------- saving_for_pattern
\* A string is a sequence of tokens.  The punctuation the parser looks for
\* (":", "/", ".", "{", "}"), the digits and the letter "d" of a
\* placeholder are tokens of their own; every other token ("file", "data",
\* "img", "index", "edf", ...) stands for a run of ordinary characters.

Take(s, n) == SubSeq(s, 1, n)
Drop(s, n) == SubSeq(s, n + 1, Len(s))

\* The first and the last position of a token in a string, 0 for none.
FirstAt(s, tok) ==
    LET I == {i \in DOMAIN s : s[i] = tok}
    IN  IF I = {} THEN 0 ELSE CHOOSE i \in I : \A j \in I : i <= j
LastAt(s, tok) ==
    LET I == {i \in DOMAIN s : s[i] = tok}
    IN  IF I = {} THEN 0 ELSE CHOOSE i \in I : \A j \in I : i >= j

\* re.findall('\://(.*?)$', pattern): what follows the first "://", as a
\* list of one string, or the empty list.
find_dir_fp(pattern) ==
    LET I == {i \in 1..(Len(pattern) - 2) :
                SubSeq(pattern, i, i + 2) = <<":", "/", "/">>}
    IN  IF I = {} THEN << >>
        ELSE <<Drop(pattern, (CHOOSE i \in I : \A j \in I : i <= j) + 2)>>

\* os.path.split: head and tail around the last "/"; the head loses its
\* trailing slashes unless it is made of slashes only.
path_split(path) ==
    LET j == LastAt(path, "/")
        head == Take(path, j)
        K == {k \in DOMAIN head : head[k] # "/"}
    IN  [head |-> IF K = {} THEN head
                  ELSE Take(head, CHOOSE k \in K : \A m \in K : k >= m),
         tail |-> Drop(path, j)]

\* os.path.splitext of a file name: root and extension around the last
\* ".", when something other than dots comes before it.
path_splitext(name) ==
    LET j == LastAt(name, ".")
    IN  IF j > 0 /\ \E k \in 1..(j - 1) : name[k] # "."
        THEN [root |-> Take(name, j - 1), ext |-> Drop(name, j - 1)]
        ELSE [root |-> name, ext |-> << >>]

\* LIMA_EXT_FORMAT
LIMA_EXT_FORMAT ==
    [EDF |-> {<<".", "edf">>},
     HDF5 |-> {<<".", "h5">>, <<".", "hdf5">>},
     CBF |-> {<<".", "cbf">>},
     TIFF |-> {<<".", "tiff">>}]

\* re.findall('{(.*?)}', s): from each "{" to the nearest "}" after it.
RECURSIVE find_keywords(_)
find_keywords(s) ==
    LET i == FirstAt(s, "{")
        rest == Drop(s, i)
        j == FirstAt(rest, "}")
    IN  IF i = 0 \/ j = 0 THEN << >>
        ELSE <<Take(rest, j - 1)>> \o find_keywords(Drop(rest, j))

\* key.lower()
lower(key) ==
    [i \in DOMAIN key |-> IF key[i] = "Index" THEN "index" ELSE key[i]]

\* value.split('d')[0]
before_d(value) ==
    IF FirstAt(value, "d") = 0 THEN value
    ELSE Take(value, FirstAt(value, "d") - 1)

\* The loop over the keywords, from keyword k on: `key, value =
\* keyword.split(':')` raises ValueError unless the keyword has exactly one
\* ":"; a key "index" binds index_format to "%" + value + "d".  bound says
\* whether index_format has been assigned.
RECURSIVE scan_keywords(_, _, _, _)
scan_keywords(keywords, k, bound, index_format) ==
    IF k > Len(keywords)
    THEN [raised |-> "none", bound |-> bound, index_format |-> index_format]
    ELSE LET keyword == keywords[k]
             colons == {i \in DOMAIN keyword : keyword[i] = ":"}
             c == FirstAt(keyword, ":")
             key == Take(keyword, c - 1)
             value == Drop(keyword, c)
         IN  IF Cardinality(colons) # 1
             THEN [raised |-> "ValueError", bound |-> bound,
                   index_format |-> index_format]
             ELSE IF lower(key) = <<"index">>
             THEN scan_keywords(keywords, k + 1, TRUE,
                                <<"%">> \o before_d(value) \o <<"d">>)
             ELSE scan_keywords(keywords, k + 1, bound, index_format)

\* The outcome of a call that raised.
Raised(exception, message) ==
    [raised |-> exception, message |-> message]

\* saving_for_pattern: the exception it ends with, or the dict it returns.
saving_for_pattern(pattern) ==
    LET found == find_dir_fp(pattern)
    IN  IF found = << >> THEN Raised("ValueError", "Wrong pattern")
        ELSE
        LET dir_fp == found[1]
            directory == path_split(dir_fp).head
            name == path_splitext(path_split(dir_fp).tail)
            file_pattern == name.root
            suffix == name.ext
            formats == {f \in DOMAIN LIMA_EXT_FORMAT :
                            suffix \in LIMA_EXT_FORMAT[f]}
        IN  IF formats = {}
            THEN Raised("ValueError", "The extension is not valid")
            ELSE
            LET fmt == CHOOSE f \in formats : TRUE
                scanned == scan_keywords(find_keywords(file_pattern), 1,
                                         FALSE, << >>)
                brace == FirstAt(file_pattern, "{")
            IN  IF scanned.raised # "none"
                THEN Raised("ValueError", "unpack")
                ELSE IF brace = 0
                THEN Raised("ValueError", "Wrong value_ref_pattern")
                ELSE IF ~scanned.bound
                THEN Raised("UnboundLocalError", "index_format")
                ELSE [raised |-> "none",
                      saving_directory |-> directory,
                      saving_format |-> fmt,
                      saving_index_format |-> scanned.index_format,
                      saving_suffix |-> suffix,
                      saving_prefix |-> Take(file_pattern, brace - 1)]

\* ------------------------------------------------------- Saving.filename

\* The largest index a reference is asked for.
MaxIndex == 12

\* The decimal digits of a natural number.
RECURSIVE Digits(_)
Digits(n) ==
    LET digit == <<"0", "1", "2", "3", "4", "5", "6", "7", "8", "9">>
    IN  IF n < 10 THEN <<digit[n + 1]>>
        ELSE Digits(n \div 10) \o <<digit[(n % 10) + 1]>>

\* The number a string of digits writes, 0 for the empty string.
RECURSIVE Number(_)
Number(digits) ==
    LET value == [d \in {"0", "1", "2", "3", "4", "5", "6", "7", "8", "9"}
                    |-> CHOOSE n \in 0..9 : Digits(n) = <<d>>]
    IN  IF digits = << >> THEN 0
        ELSE 10 * Number(Take(digits, Len(digits) - 1))
                + value[digits[Len(digits)]]

\* The padding that drops the field width.
padding_none(width, len, fill) == << >>

\* The padding of a %d conversion: the fill character up to the width.
padding(width, len, fill) ==
    [k \in 1..(IF width > len THEN width - len ELSE 0) |-> fill]

\* index_format % index for an index_format "%" + flags and width + "d":
\* a leading "0" asks for zeros, the default fill is the space.
format_index(index_format, index) ==
    LET conversion == SubSeq(index_format, 2, Len(index_format) - 1)
        zero == conversion # << >> /\ conversion[1] = "0"
        digits == Digits(index)
    IN  padding(Number(conversion), Len(digits),
                IF zero THEN "0" ELSE " ") \o digits

\* Saving.filename for a config, the saving_managed_mode and the fields
\* extra_hw_prefix and dataset_path of Saving.
filename(cfg, managed_mode, extra_hw_prefix, dataset_path, index) ==
    LET hdf5 == cfg.saving_format = "HDF5"
        scheme == IF hdf5 THEN "h5file" ELSE "file"
        dataset == IF hdf5 THEN dataset_path ELSE << >>
        hw_prefix == IF managed_mode = "HARDWARE"
                     THEN extra_hw_prefix ELSE << >>
    IN  <<scheme, ":", "/", "/">> \o cfg.saving_directory \o <<"/">>
            \o cfg.saving_prefix \o hw_prefix
            \o format_index(cfg.saving_index_format, index)
            \o cfg.saving_suffix \o dataset

\* The parts of the patterns scheme://<directory>/<prefix>{index:<w>d}<suffix>
\* the functions are applied to: directories absolute and relative and with
\* a dot, prefixes empty and with a dot, widths with and without the zero
\* flag, the suffixes of LIMA_EXT_FORMAT.
PatternParts ==
    [scheme : {"file", "h5file"},
     directory : {<<"/", "data", "/", "scan">>, <<"data">>,
                  <<"/", "data", ".", "v2">>},
     prefix : {<<"img", "_">>, << >>, <<"img", ".", "v2", "_">>},
     width : {<<"0", "4">>, <<"4">>, << >>, <<"0", "2">>},
     suffix : UNION {LIMA_EXT_FORMAT[f] : f \in DOMAIN LIMA_EXT_FORMAT}]

\* The pattern made of the parts.
pattern_of(parts) ==
    <<parts.scheme, ":", "/", "/">> \o parts.directory \o <<"/">>
        \o parts.prefix \o <<"{", "index", ":">> \o parts.width
        \o <<"d", "}">> \o parts.suffix

\* Patterns outside the grammar: no "://"; no placeholder; a placeholder
\* with another key; a placeholder without ":" or with two; an unclosed
\* placeholder; a suffix outside the table; no suffix; the empty string.
OtherPatterns ==
    {<<"file", ":", "/", "data", "/", "img", "_", "{", "index", ":", "0",
       "4", "d", "}", ".", "edf">>,
     <<"file", ":", "/", "/", "/", "data", "/", "img", ".", "edf">>,
     <<"file", ":", "/", "/", "/", "data", "/", "img", "_", "{", "scan",
       ":", "0", "3", "d", "}", ".", "edf">>,
     <<"file", ":", "/", "/", "/", "data", "/", "img", "_", "{", "index",
       "}", ".", "edf">>,
     <<"file", ":", "/", "/", "/", "data", "/", "img", "_", "{", "index",
       ":", "0", "4", "d", ":", "x", "}", ".", "edf">>,
     <<"file", ":", "/", "/", "/", "data", "/", "img", "_", "{", "index",
       ":", "0", "4", "d", ".", "edf">>,
     <<"file", ":", "/", "/", "/", "data", "/", "img", "_", "{", "index",
       ":", "0", "4", "d", "}", ".", "txt">>,
     <<"file", ":", "/", "/", "/", "data", "/", "img", "_", "{", "index",
       ":", "0", "4", "d", "}">>,
     <<"file", ":", "/", "/", "/", "data", "/", "img", ".", "txt">>,
     << >>}

\* saving_for_pattern applied to the pattern the caller holds.
SavingForPattern ==
    /\ pc = "idle"
    /\ op.name = "args"
    /\ op' = [name |-> "saving_for_pattern", pattern |-> op.pattern,
              out |-> saving_for_pattern(op.pattern)]
    /\ UNCHANGED <<session, saving, ctrl_acquisition, legacy, nb_points,
                   saving_prepare, device, pc, delivered, emitted>>

\* Saving.filename(index) on the config of the pattern the caller holds, a
\* pattern of the grammar, for the saving_managed_mode, extra_hw_prefix
\* and dataset_path of Saving.
Filename ==
    /\ pc = "idle"
    /\ op.name = "args"
    /\ "parts" \in DOMAIN op
    /\ op' = [name |-> "filename", parts |-> op.parts, index |-> op.index,
              extra_hw_prefix |-> op.extra_hw_prefix,
              dataset_path |-> op.dataset_path,
              ret |-> filename(saving_for_pattern(op.pattern),
                               saving_managed_mode, op.extra_hw_prefix,
                               op.dataset_path, op.index)]
    /\ UNCHANGED <<session, saving, ctrl_acquisition, legacy, nb_points,
                   saving_prepare, device, pc, delivered, emitted>>

\* Saving with saving enabled, in either saving_managed_mode, and the
\* arguments of the call to come: a pattern of the grammar with an index
\* and the fields extra_hw_prefix and dataset_path, or another pattern.
InitPattern ==
    /\ AcquisitionIdle
    /\ saving_enabled = TRUE
    /\ frames_per_file = 1
    /\ saving_managed_mode \in {"SOFTWARE", "HARDWARE"}
    /\ SavingPrepareIdle
    /\ saving_next_number = 0
    /\ \/ \E parts \in PatternParts, index \in 0..MaxIndex,
            extra_hw_prefix \in {<< >>, <<"hw", "_">>},
            dataset_path \in {<< >>, <<":", ":", "/", "entry">>} :
            op = [name |-> "args", pattern |-> pattern_of(parts),
                  parts |-> parts, index |-> index,
                  extra_hw_prefix |-> extra_hw_prefix,
                  dataset_path |-> dataset_path]
       \/ \E pattern \in OtherPatterns :
            op = [name |-> "args", pattern |-> pattern]

PatternNext ==
    \/ SavingForPattern
    \/ Filename

SpecPattern == InitPattern /\ [][PatternNext]_vars

\* ------------------------------------- Saving.prepare, windows_saving

\* s.split(sep)[-1] for a non-empty sep: what follows the last of the
\* occurrences of sep found from the left.
RECURSIVE split_last(_, _)
split_last(s, sep) ==
    LET I == {i \in 1..(Len(s) - Len(sep) + 1) :
                SubSeq(s, i, i + Len(sep) - 1) = sep}
    IN  IF I = {} THEN s
        ELSE split_last(Drop(s, (CHOOSE i \in I : \A j \in I : i <= j)
                                    + Len(sep) - 1), sep)

\* windows_drive after the two tests of prepare: ":/" appended to a drive
\* without ":", "/" to one with ":" and without "/".
normalize_drive(drive) ==
    IF FirstAt(drive, ":") = 0 THEN drive \o <<":", "/">>
    ELSE IF FirstAt(drive, "/") = 0 THEN drive \o <<"/">>
    ELSE drive

\* The directory written to the device: the drive in front of what is left
\* of the directory after windows_remove_base_path.
remap(saving_directory, windows_remove_base_path, drive) ==
    normalize_drive(drive)
        \o split_last(saving_directory, windows_remove_base_path)

\* The values the caller gives windows_drive.
Drives == {<< >>, <<"D">>, <<"D", ":">>, <<"D", ":", "/">>, <<"D", "/">>}

\* The directories of the pattern: below the base path of the acquisition
\* side, elsewhere, and already on the drive.
Directories ==
    {<<"/", "beamlines", "/", "bl01", "/", "data">>,
     <<"/", "tmp", "/", "data">>,
     <<"D", ":", "/", "data">>,
     <<"D", ":", "/", "bl01", "/", "data">>}

\* The values of windows_remove_base_path: that of Saving.__init__ and two
\* base paths.
BasePaths == {<< >>, <<"/", "beamlines">>, <<"/", "beamlines", "/">>}

\* Saving.prepare with saving enabled and windows_saving set, for the
\* directory of the pattern and the windows_remove_base_path the caller
\* holds.  The attributes before saving_directory are written; an empty
\* windows_remove_base_path ends the call there with the ValueError of
\* str.split (empty separator).  Otherwise windows_drive is normalized and
\* kept, and the remapped directory and the remaining attributes are
\* written; Saving.config keeps the directory of the pattern.
SavingPrepareWindows ==
    /\ spc \in {"idle", "done"}
    /\ saving_enabled
    /\ op.name \in {"windows", "prepare_windows"}
    /\ polled' = -1
    /\ clock' = 0
    /\ config' = PatternKeys
    /\ frames_per_file' \in FramesPerFile
    /\ saving_managed_mode' \in {"SOFTWARE", "HARDWARE"}
    /\ IF op.windows_remove_base_path = << >>
       THEN /\ accesses' =
                  <<ReadAttr("saving_frame_per_file"),
                    ReadAttr("saving_managed_mode"),
                    WriteAttr(attr_ordered[1]), WriteAttr(attr_ordered[2])>>
            /\ spc' = "done"
            /\ UNCHANGED windows_drive
            /\ op' = [name |-> "prepare_windows",
                      saving_directory |-> op.saving_directory,
                      windows_remove_base_path |->
                          op.windows_remove_base_path,
                      drive_before |-> windows_drive,
                      calls |-> IF op.calls < 2 THEN op.calls + 1 ELSE 2,
                      raised |-> "ValueError"]
       ELSE /\ accesses' =
                  <<ReadAttr("saving_frame_per_file"),
                    ReadAttr("saving_managed_mode")>>
                  \o [i \in DOMAIN attr_ordered |->
                        WriteAttr(attr_ordered[i])]
            /\ spc' = IF warm_up_needed(first_image_nb)
                      THEN "sentinel" ELSE "done"
            /\ windows_drive' = normalize_drive(windows_drive)
            /\ op' = [name |-> "prepare_windows",
                      saving_directory |-> op.saving_directory,
                      windows_remove_base_path |->
                          op.windows_remove_base_path,
                      drive_before |-> windows_drive,
                      calls |-> IF op.calls < 2 THEN op.calls + 1 ELSE 2,
                      raised |-> "none",
                      written |-> remap(op.saving_directory,
                                        op.windows_remove_base_path,
                                        windows_drive)]
    /\ UNCHANGED <<session, saving_enabled, ctrl_acquisition, legacy,
                   nb_points, first_image_nb, device, pc, delivered, emitted>>

\* Saving with saving enabled and windows_saving set: the windows_drive,
\* the windows_remove_base_path and the directory of the pattern as the
\* caller set them.
InitWindows ==
    /\ AcquisitionIdle
    /\ saving_enabled = TRUE
    /\ frames_per_file = 1
    /\ saving_managed_mode = "SOFTWARE"
    /\ first_image_nb = 0
    /\ windows_drive \in Drives
    /\ spc = "idle"
    /\ polled = -1
    /\ clock = 0
    /\ accesses = << >>
    /\ config = {}
    /\ saving_next_number = 0
    /\ \E saving_directory \in Directories,
          windows_remove_base_path \in BasePaths :
          op = [name |-> "windows", saving_directory |-> saving_directory,
                windows_remove_base_path |-> windows_remove_base_path,
                calls |-> 0]

\* Saving.prepare called again and again.
WindowsNext == SavingPrepareWindows

SpecWindows == InitWindows /\ [][WindowsNext]_vars

\* ------------------------------------------------------ LimaImageFormat
\* The codec at the level of bytes.  A buffer is a sequence of bytes, a
\* byte being named <<j, part, k>>: byte k of the header or of the pixels
\* of frame j.  The fields the first header encodes are kept beside the
\* bytes.

\* The largest number of frames in a buffer.
MaxFrames == 3

\* LimaImageFormat.Magic (0x44544159)
Magic == 1146372441

\* A table with a size at the reserved index.
DTypeSize_no_reserved == <<1, 2, 4, 8, 1, 2, 4>>

\* LimaImageFormat.DTypeSize, index typ + 1; 0 stands for None.
DTypeSize == <<1, 2, 4, 0, 1, 2, 4>>

\* LimaImageFormat.DArrayPackStr without the leading "<" (little-endian,
\* no alignment).
DArrayPackStr ==
    [v \in {2, 3, 4} |->
        IF v = 2 THEN <<"I", "H", "H", "I", "I", "H", "H", "H", "H", "H", "H", "H", "H", "I", "I", "I", "I", "I", "I", "I", "I">>
        ELSE IF v = 3 THEN <<"I", "H", "H", "I", "I", "H", "H", "H", "H", "H", "H", "H", "H", "I", "I", "I", "I", "I", "I", "Q">>
        ELSE <<"I", "H", "H", "I", "I", "H", "H", "H", "H", "H", "H", "H", "H", "I", "I", "I", "I", "I", "I", "Q", "Q", "I", "I">>]

\* struct.Struct.size for a format string: 4 bytes for I, 2 for H, 8 for Q.
RECURSIVE calcsize(_)
calcsize(format) ==
    IF format = << >> THEN 0
    ELSE (IF format[1] = "I" THEN 4 ELSE IF format[1] = "H" THEN 2 ELSE 8)
            + calcsize(Tail(format))

\* The buffer the device sends for N frames with one header each: the
\* header in the size of its version (of version 2 for a version without
\* format), the pixels in the size of its type (1 for a type without size).
header_bytes(header) ==
    calcsize(DArrayPackStr[IF header.version \in DOMAIN DArrayPackStr
                           THEN header.version ELSE 2])
pixel_bytes(header) ==
    header.d1 * header.d2
        * (IF header.typ + 1 \in DOMAIN DTypeSize
              /\ DTypeSize[header.typ + 1] # 0
           THEN DTypeSize[header.typ + 1] ELSE 1)
RECURSIVE frames_buffer(_, _, _)
frames_buffer(header, j, N) ==
    IF j >= N THEN << >>
    ELSE [k \in 1..header_bytes(header) |-> <<j, "header", k>>]
            \o [k \in 1..pixel_bytes(header) |-> <<j, "pixels", k>>]
            \o frames_buffer(header, j + 1, N)

\* The offset of frame i without the header of the frame itself.
frame_offset_no_header(i, frame_data_size, hsize) == i * frame_data_size

\* The offset of frame i in decode: i * frame_data_size + hsize.
frame_offset(i, frame_data_size, hsize) == i * frame_data_size + hsize

\* LimaImageFormat.decode(buff, n) of a codec constructed for
\* dataArrayVersion, on the bytes of a buffer whose first header encodes
\* the fields of header.  unpack_from needs size bytes; the three asserts,
\* the lookups of DTypes and DTypeSize and the product with None come next;
\* numpy.frombuffer needs the bytes it is asked for.
LimaImageFormat_decode(dataArrayVersion, header, bytes, n) ==
    LET size == calcsize(DArrayPackStr[dataArrayVersion])
    IN  IF Len(bytes) < size THEN Raised("struct.error", "unpack_from")
        ELSE IF header.magic # Magic
        THEN Raised("AssertionError", "magic")
        ELSE IF header.version # dataArrayVersion
        THEN Raised("AssertionError", "version")
        ELSE IF header.hsize # size
        THEN Raised("AssertionError", "hsize")
        ELSE IF header.typ + 1 \notin DOMAIN DTypeSize
        THEN Raised("IndexError", "DTypes")
        ELSE IF DTypeSize[header.typ + 1] = 0
        THEN Raised("TypeError", "nb_pixels * pixel_size")
        ELSE
        LET pixel_size == DTypeSize[header.typ + 1]
            nb_pixels == header.d1 * header.d2
            frame_size == nb_pixels * pixel_size
            frame_data_size == header.hsize + frame_size
            offset(i) == frame_offset(i, frame_data_size, header.hsize)
        IN  IF \E i \in 0..(n - 1) : offset(i) + frame_size > Len(bytes)
            THEN Raised("ValueError", "frombuffer")
            ELSE [raised |-> "none",
                  frames |->
                    [i \in 1..n |->
                        [offset |-> offset(i - 1),
                         shape |-> <<header.d2, header.d1>>,
                         data |-> SubSeq(bytes, offset(i - 1) + 1,
                                         offset(i - 1) + frame_size)]]]

\* The headers a device sends: the magic right or wrong, the versions with
\* a format and one without, the header sizes of the formats and another
\* one, every type index of the table and one past it, small images.
Headers ==
    [magic : {Magic, 0},
     version : {2, 3, 4, 5},
     hsize : {64, 80, 32},
     typ : 0..7,
     d1 : {1, 2},
     d2 : {1, 2}]

\* LimaImageFormat.__init__: a version without format ends it with a
\* ValueError.
NewLimaImageFormat ==
    /\ pc = "idle"
    /\ op.name = "codec_args"
    /\ op' = [name |-> "LimaImageFormat",
              dataArrayVersion |-> op.dataArrayVersion,
              header |-> op.header, N |-> op.N,
              raised |-> IF op.dataArrayVersion \in DOMAIN DArrayPackStr
                         THEN "none" ELSE "ValueError"]
    /\ UNCHANGED <<session, saving, ctrl_acquisition, legacy, nb_points,
                   saving_prepare, device, pc, delivered, emitted>>

\* decode(buff, n = N) on the buffer of N frames the device sends.
Decode ==
    /\ pc = "idle"
    /\ op.name = "LimaImageFormat"
    /\ op.raised = "none"
    /\ op' = [name |-> "decode",
              dataArrayVersion |-> op.dataArrayVersion,
              header |-> op.header, N |-> op.N,
              out |-> LimaImageFormat_decode(
                          op.dataArrayVersion, op.header,
                          frames_buffer(op.header, 0, op.N), op.N)]
    /\ UNCHANGED <<session, saving, ctrl_acquisition, legacy, nb_points,
                   saving_prepare, device, pc, delivered, emitted>>

\* No session; the version the codec is to be constructed for and the
\* buffer the device is to send.
InitCodec ==
    /\ AcquisitionIdle
    /\ saving_enabled = FALSE
    /\ frames_per_file = 1
    /\ saving_managed_mode = "SOFTWARE"
    /\ SavingPrepareIdle
    /\ saving_next_number = 0
    /\ \E dataArrayVersion \in {2, 3, 4, 5}, header \in Headers,
          N \in 0..MaxFrames :
          op = [name |-> "codec_args",
                dataArrayVersion |-> dataArrayVersion,
                header |-> header, N |-> N]

CodecNext ==
    \/ NewLimaImageFormat
    \/ Decode

SpecCodec == InitCodec /\ [][CodecNext]_vars

\* ------------------------------------------- Acquisition.prepare in steps

\* The names of the one batch write of Acquisition.prepare.
prepare_names ==
    <<"acq_nb_frames", "acq_expo_time", "latency_time", "acq_trigger_mode">>

\* The device accesses of Acquisition.prepare, as accesses records them.
WriteBatch(names) == [kind |-> "write", attr |-> names]
Command(name) == [kind |-> "command", attr |-> name]
ReadSaved(v) == [kind |-> "read", attr |-> "last_image_saved", value |-> v]

\* A prepare that never enters the wait loop.
prepare_waits_never(enabled) == FALSE

\* Acquisition.prepare: if self.saving.enabled
prepare_waits(enabled) == enabled

\* A wait loop that any value of the counter ends.
prepare_done_any(saved) == TRUE

\* Acquisition.prepare: the negation of the loop test
\* self["last_image_saved"] != -1
prepare_done(saved) == saved = -1

\* Acquisition.prepare, first statement: self.lima[names] = values, one
\* write of the four attributes.
PrepareWrite ==
    /\ pc = "idle"
    /\ acq_status = "Ready"
    /\ acq_nb_frames' = nb_frames
    /\ accesses' = <<WriteBatch(prepare_names)>>
    /\ pc' = "prepare_acq"
    /\ UNCHANGED <<session, saving, ctrl_acquisition, legacy, nb_points,
                   first_image_nb, windows_drive, spc, polled, clock, config,
                   acq_status, ready_for_next_image, last_image_ready,
                   last_image_saved, saving_next_number, delivered, emitted,
                   op>>

\* Acquisition.prepare, second statement: the prepareAcq command.  The
\* device drops the frame counters of the run before; the count of saved
\* frames may be dropped within the command or some time after it.  With
\* saving disabled the method returns here.
PrepareAcq ==
    /\ pc = "prepare_acq"
    /\ ready_for_next_image' = TRUE
    /\ last_image_ready' = -1
    /\ last_image_saved' \in {-1, last_image_saved}
    /\ accesses' = Append(accesses, Command("prepareAcq"))
    /\ IF prepare_waits(saving_enabled)
       THEN /\ pc' = "prepare_wait"
            /\ op' = op
       ELSE /\ pc' = "idle"
            /\ op' = [name |-> "prepare", cmds |-> <<"prepareAcq">>]
    /\ UNCHANGED <<session, saving, ctrl_acquisition, legacy, nb_points,
                   first_image_nb, windows_drive, spc, polled, clock, config,
                   acq_status, saving_next_number, acq_nb_frames, delivered,
                   emitted>>

\* Acquisition.prepare, one turn of the wait loop: a read of
\* last_image_saved, then the return on -1 or a sleep of 0.01 s.  The loop
\* has no other exit.  accesses keeps one record for a run of equal reads.
PrepareWait ==
    /\ pc = "prepare_wait"
    /\ accesses' =
            IF accesses[Len(accesses)] = ReadSaved(last_image_saved)
            THEN accesses
            ELSE Append(accesses, ReadSaved(last_image_saved))
    /\ IF prepare_done(last_image_saved)
       THEN /\ pc' = "idle"
            /\ op' = [name |-> "prepare", cmds |-> <<"prepareAcq">>]
       ELSE /\ pc' = "prepare_wait"
            /\ op' = op
    /\ UNCHANGED <<session, saving, ctrl_acquisition, legacy, nb_points,
                   first_image_nb, windows_drive, spc, polled, clock, config,
                   device, delivered, emitted>>

\* The device finishing prepareAcq: last_image_saved falls back to -1.
DevClearSaved ==
    /\ pc = "prepare_wait"
    /\ last_image_saved # -1
    /\ last_image_saved' = -1
    /\ UNCHANGED <<session, saving, ctrl_acquisition, legacy, nb_points,
                   saving_prepare, acq_status, ready_for_next_image,
                   last_image_ready, saving_next_number, acq_nb_frames, pc,
                   delivered, emitted, op>>

\* A new session armed: prepare() in its steps, then start().
ArmNext ==
    \/ PrepareWrite
    \/ PrepareAcq
    \/ PrepareWait
    \/ DevClearSaved
    \/ StartAcq
    \/ StartSnapshot

\* The caller keeps polling and the device eventually reports
\* last_image_saved == -1 after prepareAcq.
SpecArm ==
    /\ InitNew
    /\ [][ArmNext]_vars
    /\ WF_vars(PrepareWait)
    /\ WF_vars(DevClearSaved)

\* ------------------------------------------------ Acquisition.start failing

\* A count of the call kept in a finally clause.
start_counts_always(raised) == TRUE

\* Acquisition.start: self.nb_starts_called += 1 is the last statement,
\* reached only when no statement before it raised.
start_counts(raised) == ~raised

\* Acquisition.start raising on the startAcq command: the device refused
\* it, nothing after the command is executed.
StartAcqFail ==
    /\ pc = "idle"
    /\ nb_starts_called < MaxCalls
    /\ starts_device(trigger, nb_starts_called)
    /\ nb_starts_called' =
         IF start_counts(TRUE) THEN nb_starts_called + 1 ELSE nb_starts_called
    /\ op' = [name |-> "start", cmds |-> << >>, raised |-> "command_inout"]
    /\ UNCHANGED <<trigger, nb_frames, nb_starts, stopped, acq_next_number,
                   save_next_number, last_saved_number, saving,
                   ctrl_acquisition, legacy, nb_points, saving_prepare, device,
                   pc, delivered, emitted>>

\* Acquisition.start raising on the read of saving_next_number, after the
\* device took startAcq: the assignment to _save_next_number and the count
\* of the call are not reached.
StartSnapshotFail ==
    /\ pc = "start_snapshot"
    /\ pc' = "idle"
    /\ nb_starts_called' =
         IF start_counts(TRUE) THEN nb_starts_called + 1 ELSE nb_starts_called
    /\ op' = [name |-> "start", cmds |-> <<"startAcq">>,
              raised |-> "read_attribute"]
    /\ UNCHANGED <<trigger, nb_frames, nb_starts, stopped, acq_next_number,
                   save_next_number, last_saved_number, saving,
                   ctrl_acquisition, legacy, nb_points, saving_prepare, device,
                   delivered, emitted>>

\* start() returning or raising, called again by its caller after either,
\* against the device.
StartFaultsNext ==
    \/ StartAcq
    \/ StartSnapshot
    \/ StartAcqFail
    \/ StartSnapshotFail
    \/ DevAcquire
    \/ DevSave
    \/ DevReady

SpecStartFaults == Init /\ [][StartFaultsNext]_vars

\* ------------------------------------ the legacy controller (LimaCCDCtrl)

\* Lima.StateOne on one read of acq_status, last_image_saved and
\* last_image_ready: Fault for a status other than Ready and Running; with
\* value references enabled Moving while the device runs or frames are
\* still to be saved, unless stopped or aborted; with them disabled Moving
\* while the device runs or frames are still to be acquired.
Lima_state(status, saved, ready) ==
    IF status \notin {"Ready", "Running"} THEN "Fault"
    ELSE IF _value_ref_enabled
         THEN LET images_to_save == saved = -1 \/ saved < _nb_frames - 1
              IN  IF (status = "Running" \/ images_to_save) /\ ~_aborted_flg
                  THEN "Moving" ELSE "On"
         ELSE IF status = "Running" \/ ready < _nb_frames - 1
              THEN "Moving" ELSE "On"

\* Lima.StateOne.
Lima_StateOne ==
    /\ pc = "idle"
    /\ op' = [name |-> "StateOne",
              ret |-> Lima_state(acq_status, last_image_saved,
                                 last_image_ready)]
    /\ UNCHANGED <<session, saving, ctrl_acquisition, legacy, nb_points,
                   saving_prepare, device, pc, delivered, emitted>>

\* Lima.PrepareOne for a hardware synchronization or SoftwareStart (the
\* path that sets return_seq): _clean_variables, _nb_frames, with value
\* references enabled the saving attributes (the device numbers its files
\* anew after saving_prefix), the four acquisition attributes and
\* _prepareAcq, which returns once last_image_saved reads -1.  delivered
\* and emitted start again with the acquisition.
Lima_PrepareOne ==
    /\ pc = "idle"
    /\ acq_status = "Ready"
    /\ \E repetitions \in NbPoints, starts \in NbStarts :
            /\ _nb_frames' = repetitions * starts
            /\ acq_nb_frames' = repetitions * starts
    /\ _last_image_read' = -1
    /\ _image_next_number' = 0
    /\ _aborted_flg' = FALSE
    /\ _started_flg' = FALSE
    /\ _skipp_start' = TRUE
    /\ return_seq' = TRUE
    /\ IF _value_ref_enabled
       THEN saving_next_number' \in FirstNumbers
       ELSE saving_next_number' = saving_next_number
    /\ ready_for_next_image' = TRUE
    /\ last_image_ready' = -1
    /\ last_image_saved' = -1
    /\ delivered' = << >>
    /\ emitted' = << >>
    /\ op' = [name |-> "PrepareOne", cmds |-> <<"prepareAcq">>]
    /\ UNCHANGED <<session, saving, ctrl_acquisition, nb_points,
                   saving_prepare, _value_ref_enabled, acq_status, pc>>

\* Lima.StartOne up to the startAcq command: nothing for a sequence already
\* started; otherwise the command and _started_flg, the read of
\* saving_next_number following as a second device access.
Lima_StartOne ==
    /\ pc = "idle"
    /\ _nb_frames > 0
    /\ IF _skipp_start /\ _started_flg
       THEN /\ op' = [name |-> "StartOne", cmds |-> << >>]
            /\ UNCHANGED <<_started_flg, acq_status, ready_for_next_image,
                           pc>>
       ELSE /\ acq_status' =
                    IF acq_status = "Fault" THEN "Fault" ELSE "Running"
            /\ ready_for_next_image' = FALSE
            /\ _started_flg' = TRUE
            /\ pc' = "StartOne_snapshot"
            /\ op' = op
    /\ UNCHANGED <<session, saving, ctrl_acquisition, nb_points,
                   saving_prepare, _last_image_read, _image_next_number,
                   _nb_frames, _value_ref_enabled, _aborted_flg,
                   _skipp_start, return_seq, last_image_ready,
                   last_image_saved, saving_next_number, acq_nb_frames,
                   delivered, emitted>>

\* Lima.StartOne, last statement: _image_next_number takes the device's
\* saving_next_number.
Lima_StartSnapshot ==
    /\ pc = "StartOne_snapshot"
    /\ _image_next_number' = saving_next_number
    /\ pc' = "idle"
    /\ op' = [name |-> "StartOne", cmds |-> <<"startAcq">>]
    /\ UNCHANGED <<session, saving, ctrl_acquisition, nb_points,
                   saving_prepare, _last_image_read, _nb_frames,
                   _value_ref_enabled, _aborted_flg, _started_flg,
                   _skipp_start, return_seq, device, delivered, emitted>>

\* The frame indices read_lima_frames is asked for by ReadOne:
\* _last_image_read + 1 up to ready.
Lima_new_frames(ready) ==
    [i \in 1..(ready - _last_image_read) |-> _last_image_read + i]

\* Lima.ReadOne in sequence mode: nothing when the cursor equals
\* last_image_ready, otherwise the frames after the cursor, both cursors
\* going up by their number.
Lima_ReadOne ==
    /\ pc = "idle"
    /\ return_seq
    /\ LET ready == last_image_ready
           frames == IF _last_image_read = ready THEN << >>
                     ELSE Lima_new_frames(ready)
       IN  /\ _last_image_read' = _last_image_read + Len(frames)
           /\ _image_next_number' = _image_next_number + Len(frames)
           /\ delivered' = delivered \o frames
           /\ op' = [name |-> "ReadOne", last |-> ready, n |-> Len(frames)]
    /\ UNCHANGED <<session, saving, ctrl_acquisition, nb_points,
                   saving_prepare, _nb_frames, _value_ref_enabled,
                   _aborted_flg, _started_flg, _skipp_start, return_seq,
                   device, pc, emitted>>

\* The file indices of the while loop of RefOne: one per step of the
\* cursor up to the value of last_image_saved read.
Lima_new_refs(saved) ==
    [i \in 1..(saved - _last_image_read) |-> _image_next_number + i - 1]

\* Lima.RefOne in sequence mode: nothing when the cursor equals
\* last_image_saved, otherwise one reference per step of the cursor, both
\* cursors going up by one per reference.
Lima_RefOne ==
    /\ pc = "idle"
    /\ return_seq
    /\ LET new_image_ready == last_image_saved
           images_refs == IF _last_image_read = new_image_ready THEN << >>
                          ELSE Lima_new_refs(new_image_ready)
       IN  /\ _last_image_read' = _last_image_read + Len(images_refs)
           /\ _image_next_number' = _image_next_number + Len(images_refs)
           /\ emitted' = emitted \o images_refs
           /\ op' = [name |-> "RefOne", last |-> new_image_ready,
                     n |-> Len(images_refs)]
    /\ UNCHANGED <<session, saving, ctrl_acquisition, nb_points,
                   saving_prepare, _nb_frames, _value_ref_enabled,
                   _aborted_flg, _started_flg, _skipp_start, return_seq,
                   device, pc, delivered>>

\* Lima.StopOne: _aborted_flg, then the stopAcq command.
Lima_StopOne ==
    /\ pc = "idle"
    /\ _aborted_flg' = TRUE
    /\ acq_status' = IF acq_status = "Fault" THEN "Fault" ELSE "Ready"
    /\ op' = [name |-> "StopOne", cmds |-> <<"stopAcq">>]
    /\ UNCHANGED <<session, saving, ctrl_acquisition, nb_points,
                   saving_prepare, _last_image_read, _image_next_number,
                   _nb_frames, _value_ref_enabled, _started_flg,
                   _skipp_start, return_seq, ready_for_next_image,
                   last_image_ready, last_image_saved, saving_next_number,
                   acq_nb_frames, pc, delivered, emitted>>

\* Lima.AbortOne: _aborted_flg, then the abortAcq command.
Lima_AbortOne ==
    /\ pc = "idle"
    /\ _aborted_flg' = TRUE
    /\ acq_status' = IF acq_status = "Fault" THEN "Fault" ELSE "Ready"
    /\ op' = [name |-> "AbortOne", cmds |-> <<"abortAcq">>]
    /\ UNCHANGED <<session, saving, ctrl_acquisition, nb_points,
                   saving_prepare, _last_image_read, _image_next_number,
                   _nb_frames, _value_ref_enabled, _started_flg,
                   _skipp_start, return_seq, ready_for_next_image,
                   last_image_ready, last_image_saved, saving_next_number,
                   acq_nb_frames, pc, delivered, emitted>>

\* The device in the saving_mode AUTO_FRAME that PrepareOne writes with
\* value references enabled: it saves the next ready frame in a file of its
\* own and saving_next_number goes up by one.
Lima_DevSave ==
    /\ _value_ref_enabled
    /\ _nb_frames > 0
    /\ acq_status # "Fault"
    /\ last_image_saved < last_image_ready
    /\ last_image_saved' = last_image_saved + 1
    /\ saving_next_number' = saving_next_number + 1
    /\ UNCHANGED <<session, saving, ctrl_acquisition, legacy, nb_points,
                   saving_prepare, acq_status, ready_for_next_image,
                   last_image_ready, acq_nb_frames, pc, delivered, emitted,
                   op>>

\* The legacy controller as constructed, value references enabled or not
\* by the time of the first PrepareOne (the axis parameter value_ref_enabled
\* written by the pool), no client session, the device at rest.
InitLima ==
    /\ ctrl_acquisition = "None"
    /\ trigger = "INTERNAL_TRIGGER"
    /\ nb_points = 1
    /\ nb_starts = 1
    /\ nb_frames = init_nb_frames(nb_points, nb_starts)
    /\ nb_starts_called = 0
    /\ stopped = FALSE
    /\ acq_next_number = 0
    /\ save_next_number = 0
    /\ last_saved_number = -1
    /\ acq_status = "Ready"
    /\ ready_for_next_image = TRUE
    /\ last_image_ready = -1
    /\ last_image_saved = -1
    /\ acq_nb_frames = nb_frames
    /\ pc = "idle"
    /\ delivered = << >>
    /\ emitted = << >>
    /\ _last_image_read = -1
    /\ _image_next_number = 0
    /\ _nb_frames = 0
    /\ _value_ref_enabled \in BOOLEAN
    /\ _aborted_flg = FALSE
    /\ _started_flg = FALSE
    /\ _skipp_start = FALSE
    /\ return_seq = FALSE
    /\ saving_enabled = FALSE
    /\ frames_per_file = 1
    /\ saving_managed_mode = "SOFTWARE"
    /\ SavingPrepareIdle
    /\ saving_next_number \in FirstNumbers
    /\ op = [name |-> "init"]

\* The legacy controller in sequence mode: the calls of the pool in any
\* order, against the device.
LimaNext ==
    \/ Lima_PrepareOne
    \/ Lima_StartOne
    \/ Lima_StartSnapshot
    \/ Lima_ReadOne
    \/ Lima_RefOne
    \/ Lima_StateOne
    \/ Lima_StopOne
    \/ Lima_AbortOne
    \/ DevAcquire
    \/ Lima_DevSave
    \/ DevReady
    \/ DevFault

SpecLima == InitLima /\ [][LimaNext]_vars

\* calc_status as a function of the session and of the snapshot: every
\* session state and every snapshot of a device prepared for nb_frames
\* frames, then one status call.
InitStatus ==
    /\ trigger \in Modes
    /\ nb_points \in NbPoints
    /\ nb_starts \in NbStarts
    /\ nb_frames = init_nb_frames(nb_points, nb_starts)
    /\ nb_starts_called \in 0..MaxCalls
    /\ stopped \in BOOLEAN
    /\ \E cfg \in SavingConfigs :
            /\ saving_enabled = cfg.enabled
            /\ frames_per_file = cfg.fpf
            /\ saving_managed_mode = cfg.managed
    /\ acq_status \in AcqStatus
    /\ ready_for_next_image \in BOOLEAN
    /\ last_image_ready \in -1..(nb_frames - 1)
    /\ last_image_saved \in
            IF saving_enabled THEN -1..last_image_ready ELSE {-1}
    /\ saving_next_number \in FirstNumbers
    /\ acq_nb_frames = nb_frames
    /\ ctrl_acquisition = "Acquisition"
    /\ LimaCCDCtrl_init
    /\ acq_next_number \in 0..(last_image_ready + 1)
    /\ save_next_number \in {0, saving_next_number}
    /\ last_saved_number = -1
    /\ SavingPrepareIdle
    /\ pc = "idle"
    /\ delivered = [i \in 1..acq_next_number |-> i - 1]
    /\ emitted = << >>
    /\ op = [name |-> "init"]

SpecStatus == InitStatus /\ [][Status]_vars

\* ------------------------------------------------------------ the claims

\* C1: over any sequence of frame polls interleaved with device progress,
\* _acq_next_number never decreases and never exceeds last_image_ready + 1.
C1_CounterBounded ==
    /\ acq_next_number <= last_image_ready + 1
    /\ [][/\ acq_next_number' >= acq_next_number
          /\ acq_next_number' <= last_image_ready' + 1]_vars

\* C1 witness: a multi-frame poll has brought the counter up to the bound.
C1_Witness ==
    /\ op.name = "next_frames"
    /\ op.n >= 2
    /\ acq_next_number = last_image_ready + 1

\* C2: next_frames called again while last_image_ready is what the call
\* before it read returns no frame and leaves _acq_next_number unchanged.
C2_NextFramesIdempotent ==
    [][(/\ op.name = "next_frames"
        /\ op.last = last_image_ready
        /\ NextFrames)
       => /\ op'.n = 0
          /\ delivered' = delivered
          /\ acq_next_number' = acq_next_number]_vars

\* C2 witness: a first next_frames call delivered frames and a second one
\* followed on the same last_image_ready.
C2_Witness ==
    /\ op.name = "next_frames"
    /\ op.again
    /\ op.last = last_image_ready
    /\ acq_next_number >= 2

\* C3 as stated: next_frame called again while last_image_ready is what the
\* call before it read returns nothing and does not advance the counter,
\* whatever the counter and last_image_ready are.
C3_Original ==
    [][(/\ op.name = "next_frame"
        /\ op.last = last_image_ready
        /\ NextFrame)
       => /\ op'.n = 0
          /\ delivered' = delivered
          /\ acq_next_number' = acq_next_number]_vars

\* C3 amended: the repeated next_frame call returns nothing and does not
\* advance exactly when the counter is already past last_image_ready; while
\* ready frames are pending it returns the next one and advances by one.
C3_NextFrameRepeated ==
    [][(/\ op.name = "next_frame"
        /\ op.last = last_image_ready
        /\ NextFrame)
       => IF acq_next_number > last_image_ready
          THEN /\ op'.n = 0
               /\ delivered' = delivered
               /\ acq_next_number' = acq_next_number
          ELSE /\ op'.n = 1
               /\ delivered' = Append(delivered, acq_next_number)
               /\ acq_next_number' = acq_next_number + 1]_vars

\* C3 witness: a repeated next_frame call on an unchanged last_image_ready
\* that returned nothing, after frames were delivered.
C3_Witness ==
    /\ op.name = "next_frame"
    /\ op.again
    /\ op.n = 0
    /\ acq_next_number = last_image_ready + 1
    /\ acq_next_number >= 1

\* C4: the frames delivered are 0, 1, 2, ... in order, each once, the
\* counter equals the number delivered, and the frames of a poll are not
\* beyond the last_image_ready that poll read.
C4_FramesContiguous ==
    /\ delivered = [i \in 1..acq_next_number |-> i - 1]
    /\ op.name \in {"next_frame", "next_frames"}
         => \A i \in (Len(delivered) - op.n + 1)..Len(delivered) :
                delivered[i] <= op.last

\* C4 witness: single- and multi-frame polls have delivered three frames,
\* the last poll two of them at once.
C4_Witness ==
    /\ op.name = "next_frames"
    /\ op.n = 2
    /\ Len(delivered) = 3

FirstFileIndex == saving_next_number - (last_image_saved + 1)

\* C6: with saving enabled and one frame per file, the references emitted
\* are those of the saved frames in order: first, first + 1, ..., none
\* repeated, none skipped, also over several start() calls.  Stated for the
\* sessions whose references all came from next_ref_frames in
\* software-managed mode (one reference per frame counted in
\* _last_saved_number) and whose first reference was the first file.
C6_RefsExact ==
    (/\ saving_enabled
     /\ frames_per_file = 1
     /\ saving_managed_mode = "SOFTWARE"
     /\ Len(emitted) = last_saved_number + 1
     /\ Len(emitted) >= 1
     /\ emitted[1] = FirstFileIndex)
        => /\ Len(emitted) <= last_image_saved + 1
           /\ \A i \in 1..Len(emitted) : emitted[i] = FirstFileIndex + i - 1

\* C7: next_ref_frames returns last_image_saved - _last_saved_number
\* references (none when that is <= 0) and advances _last_saved_number by
\* that count, up to the last_image_saved it read when there were new ones.
C7_RefFramesCount ==
    [][NextRefFrames
       => LET d == last_image_saved - last_saved_number
              count == IF d > 0 THEN d ELSE 0
          IN  /\ op'.n = count
              /\ Len(emitted') = Len(emitted) + count
              /\ last_saved_number' = last_saved_number + count
              /\ d > 0 => last_saved_number' = op'.last]_vars

\* C7 witness: one next_ref_frames call returned two references, another
\* one before it some more.
C7_Witness ==
    /\ op.name = "next_ref_frames"
    /\ op.n = 2
    /\ last_saved_number = op.last
    /\ Len(emitted) >= 3

\* The index the session takes for finished: idx_saved with saving enabled,
\* else idx_ready.
IdxFinished == IF saving_enabled THEN last_image_saved ELSE last_image_ready

\* The two multi-start rules under which a Running status is reported Ready.
MultiStartReady ==
    \/ /\ trigger = "INTERNAL_TRIGGER_MULTI"
       /\ ready_for_next_image
       /\ (IdxFinished + 1 >= nb_starts_called
           \/ saving_managed_mode = "HARDWARE")
    \/ /\ trigger \in {"EXTERNAL_TRIGGER", "EXTERNAL_TRIGGER_MULTI",
                       "EXTERNAL_GATE"}
       /\ nb_starts > 1
       /\ IdxFinished >= 0

\* C8 as stated: with nb_starts_called = 0 the derived status is never Ready.
C8_Original ==
    (op.name = "calc_status" /\ nb_starts_called = 0) => op.ret # "Ready"

\* C8 amended: with nb_starts_called = 0 the derived status is never
\* Running: it is Ready for a raw Ready or Running, and the raw status
\* itself otherwise.
C8_NotStartedReady ==
    (op.name = "calc_status" /\ nb_starts_called = 0)
        => op.ret = IF acq_status \in {"Ready", "Running"}
                    THEN "Ready" ELSE acq_status

\* C8 witness: a session never started and not stopped, whose device says
\* Running with frames missing, was reported Ready.
C8_Witness ==
    /\ op.name = "calc_status"
    /\ nb_starts_called = 0
    /\ ~stopped
    /\ acq_status = "Running"
    /\ IdxFinished < nb_frames - 1
    /\ op.ret = "Ready"

C10_Original ==
    (op.name = "calc_status" /\ acq_status = "Ready") => op.ret = "Ready"

\* C10 amended: a raw Ready is reported Ready when the session is stopped,
\* was never started, or has all its frames finished; a started, not
\* stopped session with frames missing treats it as Running, and reports
\* Ready only under the multi-start rules.
C10_RawReady ==
    (op.name = "calc_status" /\ acq_status = "Ready")
        => op.ret =
             IF stopped \/ nb_starts_called = 0
                \/ IdxFinished >= nb_frames - 1
             THEN "Ready"
             ELSE IF MultiStartReady THEN "Ready" ELSE "Running"

\* C10 witness: a raw Ready with the last frame finished, in a started and
\* not stopped session, reported Ready.
C10_Witness ==
    /\ op.name = "calc_status"
    /\ acq_status = "Ready"
    /\ nb_starts_called >= 1
    /\ ~stopped
    /\ nb_frames >= 2
    /\ IdxFinished = nb_frames - 1
    /\ op.ret = "Ready"

\* C11: whatever the session state (stopped or not, started or not, any
\* counters), a status call on a snapshot whose acq_status is neither Ready
\* nor Running returns that acq_status verbatim.
C11_FaultPassThrough ==
    (op.name = "calc_status" /\ acq_status \notin {"Ready", "Running"})
        => op.ret = acq_status

\* C11 witness: a stopped session that was started and has every frame,
\* asked for its status while the device reports Configuration.
C11_Witness ==
    /\ op.name = "calc_status"
    /\ acq_status = "Configuration"
    /\ stopped
    /\ nb_starts_called >= 1
    /\ last_image_ready = nb_frames - 1
    /\ op.ret = "Configuration"

\* C12: once stop() or abort() has set stopped, no operation of the session
\* (start, prepare, the polls, status) sets it back, and every status call
\* on a raw Ready or Running snapshot returns Ready whatever the counters.
C12_StoppedAbsorbing ==
    [][/\ stopped => stopped'
       /\ (Status /\ stopped /\ acq_status \in {"Ready", "Running"})
            => op'.ret = "Ready"]_vars

\* C12 witness: a stopped session started again, the device running with
\* frames still missing, and the status call answering Ready.
C12_Witness ==
    /\ op.name = "calc_status"
    /\ stopped
    /\ nb_starts_called >= 1
    /\ acq_status = "Running"
    /\ last_image_ready < nb_frames - 1
    /\ op.ret = "Ready"

\* C13: a status call leaves nb_starts_called, stopped, _acq_next_number,
\* _save_next_number, _last_saved_number, nb_frames and the trigger mode as
\* they were, writes no device attribute and issues no device command.
C13_StatusPure ==
    [][Status
       => /\ UNCHANGED <<nb_starts_called, stopped, acq_next_number,
                         save_next_number, last_saved_number, nb_frames,
                         trigger>>
          /\ UNCHANGED device
          /\ op'.cmds = << >>]_vars

\* C13 witness: a status call that went through every test of calc_status
\* on a started session with frames ready that it has not delivered yet.
C13_Witness ==
    /\ op.name = "calc_status"
    /\ op.ret = "Running"
    /\ nb_starts_called >= 1
    /\ ~stopped
    /\ acq_next_number < last_image_ready + 1

\* C14: in EXTERNAL_TRIGGER mode the first start() call of the session sends
\* startAcq and every later start() call sends no device command and leaves
\* the device and _save_next_number as they were.
C14_ExternalSingleStart ==
    [][(trigger = "EXTERNAL_TRIGGER" /\ (StartAcq \/ StartSnapshot))
       => IF nb_starts_called = 0
          THEN pc' = "start_snapshot" \/ op'.cmds = <<"startAcq">>
          ELSE /\ pc' = "idle"
               /\ op'.cmds = << >>
               /\ UNCHANGED <<device, save_next_number>>]_vars

\* C14 witness: a later start() call in EXTERNAL_TRIGGER mode that sent
\* nothing, the device having moved its saving_next_number past the
\* snapshot of the first call.
C14_Witness ==
    /\ trigger = "EXTERNAL_TRIGGER"
    /\ op.name = "start"
    /\ op.cmds = << >>
    /\ nb_starts_called >= 2
    /\ saving_enabled
    /\ save_next_number < saving_next_number

\* C15 as stated: in every mode other than EXTERNAL_TRIGGER every start()
\* call sends startAcq.
C15_Original ==
    [][(trigger # "EXTERNAL_TRIGGER" /\ (StartAcq \/ StartSnapshot))
       => (pc' = "start_snapshot" \/ op'.cmds = <<"startAcq">>)]_vars

\* C15: a start() call sends startAcq exactly when the trigger mode is an
\* internal one or the call is the first of the session: in the internal
\* modes every call does, in the three external modes only the first.
C15_StartPerMode ==
    [][(StartAcq \/ StartSnapshot)
       => ((pc' = "start_snapshot" \/ op'.cmds = <<"startAcq">>)
            <=> \/ trigger \in {"INTERNAL_TRIGGER", "INTERNAL_TRIGGER_MULTI"}
                \/ nb_starts_called = 0)]_vars

\* C15 witness: a second start() call in EXTERNAL_GATE mode that sent no
\* command, the device still running from the first.
C15_Witness ==
    /\ trigger = "EXTERNAL_GATE"
    /\ op.name = "start"
    /\ op.cmds = << >>
    /\ nb_starts_called >= 2
    /\ acq_status = "Running"

\* C16: when a prepare() call has returned, _acq_next_number is 0,
\* _save_next_number is 0, _last_saved_number is -1 and nb_starts_called is
\* 0, also when the session was started and polled before the call.
C16_PrepareResets ==
    op.name = "prepare"
        => /\ acq_next_number = 0
           /\ save_next_number = 0
           /\ last_saved_number = -1
           /\ nb_starts_called = 0

\* C17: nb_frames is nb_points * nb_starts from the construction on, every
\* prepare() writes that value to the device attribute acq_nb_frames, and
\* no operation of the session changes nb_frames.
C17_NbFrames ==
    /\ [](nb_frames = nb_points * nb_starts)
    /\ [][/\ nb_frames' = nb_frames
          /\ Prepare => acq_nb_frames' = nb_points * nb_starts]_vars

\* C17 witness: a session of two points and two starts, prepared again
\* after a start and a delivered frame, on a device that holds its four
\* frames in acq_nb_frames.
C17_Witness ==
    /\ op.name = "prepare"
    /\ nb_points = 2
    /\ nb_starts = 2
    /\ nb_starts_called >= 1
    /\ acq_next_number >= 1
    /\ nb_frames = 4
    /\ acq_nb_frames = 4

\* C18: a frame or reference poll that fails on the device (attribute read,
\* readImageSeq, a format tag other than DATA_ARRAY, decoding) ends with the
\* exception and leaves _acq_next_number and _last_saved_number as they
\* were, so the frames delivered over failing and returning polls are still
\* 0, 1, 2, ... up to _acq_next_number with none left out.
C18_FailureLosesNoFrame ==
    /\ [](/\ Len(delivered) = acq_next_number
          /\ \A i \in 1..Len(delivered) : delivered[i] = i - 1)
    /\ [][(NextFrameFail \/ NextFramesFail \/ NextRefFramesFail)
          => /\ op'.raised \in PollFailures
             /\ UNCHANGED <<acq_next_number, last_saved_number>>]_vars

\* C18 witness: next_frames raised on the format tag with two frames
\* waiting, none of them counted as delivered.
C18_Witness ==
    /\ op.name = "next_frames"
    /\ op.raised = "DATA_ARRAY"
    /\ last_image_ready >= 1
    /\ acq_next_number = 0
    /\ delivered = << >>

\* C19: a poll that reads a device counter lower than what the session has
\* consumed (last_image_ready below the last frame delivered, last_image_saved
\* below _last_saved_number) raises StaleCounterError and does not return
\* normally.
C19_StaleRaises ==
    [][/\ (NextFrames /\ last_image_ready < acq_next_number - 1)
            => op'.raised = "StaleCounterError"
       /\ (NextRefFrames /\ last_image_saved < last_saved_number)
            => op'.raised = "StaleCounterError"]_vars

\* C20: StopOne and AbortOne can be called in every state between two
\* calls, with or without a session and however often.  Without a session
\* they send stopAcq / abortAcq to the device, create no session and touch
\* no session field; with a session they leave it stopped.
C20_StopAlwaysSafe ==
    /\ [](pc = "idle" => (ENABLED StopOne /\ ENABLED AbortOne))
    /\ [][/\ (StopOne /\ ctrl_acquisition = "None")
               => /\ op'.cmds = <<"stopAcq">>
                  /\ ctrl_acquisition' = "None"
                  /\ UNCHANGED session
          /\ (AbortOne /\ ctrl_acquisition = "None")
               => /\ op'.cmds = <<"abortAcq">>
                  /\ ctrl_acquisition' = "None"
                  /\ UNCHANGED session
          /\ ((StopOne \/ AbortOne) /\ ctrl_acquisition # "None")
               => /\ stopped'
                  /\ op'.cmds \in {<<"stopAcq">>, <<"abortAcq">>}]_vars

\* C20 witness: AbortOne without a session has sent abortAcq to a device
\* that was running for another client, and there is still no session.
C20_Witness ==
    /\ ctrl_acquisition = "None"
    /\ op.name = "AbortOne"
    /\ op.cmds = <<"abortAcq">>
    /\ acq_status = "Ready"
    /\ last_image_ready >= 0
    /\ last_image_ready < acq_nb_frames - 1

\* The reads and the writes of saving_next_number among the accesses of the
\* current Saving.prepare call, and the writes that follow a poll.
NumberReads ==
    {i \in DOMAIN accesses :
        accesses[i].attr = "saving_next_number" /\ accesses[i].kind = "read"}
NumberWrites ==
    {i \in DOMAIN accesses :
        accesses[i].attr = "saving_next_number" /\ accesses[i].kind = "write"}
FirstNumberWrites == {i \in NumberWrites : (i - 1) \in NumberReads}

\* C21: the warm-up loop always ends and Saving.prepare returns: every turn
\* uses up budget, so there are at most Budget polls; on a device that
\* reads -1 at every poll the loop ends with the budget spent and the only
\* write to saving_next_number is the sentinel.
C21_WarmUpTerminates ==
    /\ (spc = "loop") ~> (spc = "done")
    /\ [](Cardinality(NumberReads) <= Budget)
    /\ []((/\ spc = "done"
           /\ NumberReads # {}
           /\ \A i \in NumberReads : accesses[i].value = -1)
          => /\ clock >= Budget
             /\ \A i \in NumberWrites : accesses[i].value = -1)

\* C21 witness: Saving.prepare has returned after Budget polls that all read
\* the sentinel, the device still at -1.
C21_Witness ==
    /\ spc = "done"
    /\ first_image_nb # 0
    /\ Cardinality(NumberReads) = Budget
    /\ \A i \in NumberReads : accesses[i].value = -1
    /\ saving_next_number = -1

\* C22: in a warm-up the first image number is written exactly after a poll
\* that read 0, at most once; a poll that reads a number other than -1 is
\* the last one; a number other than 0 and -1 is left on the device.
C22_FirstNumberWritten ==
    /\ [](/\ \A i \in FirstNumberWrites :
                /\ accesses[i - 1].value = 0
                /\ accesses[i].value = first_image_nb
          /\ \A i \in NumberReads :
                accesses[i].value = 0 => (i + 1) \in FirstNumberWrites
          /\ \A i \in NumberWrites \ FirstNumberWrites :
                accesses[i].value = -1
          /\ Cardinality(FirstNumberWrites) <= 1
          /\ \A i, j \in NumberReads : i < j => accesses[i].value = -1)
    /\ [][(WarmUpPoll /\ saving_next_number # 0)
          => saving_next_number' = saving_next_number]_vars

\* C22 witness: a warm-up whose first poll read the sentinel and whose
\* second read 0, the first image number now on the device.
C22_Witness ==
    /\ spc = "done"
    /\ Cardinality(NumberReads) = 2
    /\ FirstNumberWrites # {}
    /\ saving_next_number = first_image_nb

\* The order of the warm-up among the accesses: the sentinel, right after
\* it saving_prefix, right after that the first poll, and every other
\* write (all of attr_ordered) before the sentinel.
WarmUpOrder ==
    \E s \in NumberWrites :
        /\ accesses[s].value = -1
        /\ (s + 2) \in NumberReads
        /\ accesses[s + 1] = WriteAttr("saving_prefix")
        /\ \A i \in NumberReads : i >= s + 2
        /\ \A k \in DOMAIN attr_ordered :
              \E i \in 1..(s - 1) : accesses[i] = WriteAttr(attr_ordered[k])
        /\ \A i \in DOMAIN accesses :
              (accesses[i].kind = "write" /\ i \notin NumberWrites)
                  => (i < s \/ i = s + 1)

\* C23 as stated: no access to saving_next_number when first_image_nb is
\* 0, and the warm-up order whenever first_image_nb is not 0.
C23_Original ==
    /\ first_image_nb = 0 => (NumberReads \cup NumberWrites) = {}
    /\ (spc = "done" /\ first_image_nb # 0) => WarmUpOrder

\* C23: no access to saving_next_number when first_image_nb is 0 or saving
\* is disabled; the warm-up order when saving is enabled and first_image_nb
\* is not 0.
C23_WarmUpOnlyWhenAsked ==
    /\ (first_image_nb = 0 \/ ~saving_enabled)
            => (NumberReads \cup NumberWrites) = {}
    /\ (spc = "done" /\ saving_enabled /\ first_image_nb # 0) => WarmUpOrder

\* C23 witness: Saving.prepare has returned from a warm-up.
C23_Witness ==
    /\ spc = "done"
    /\ saving_enabled
    /\ first_image_nb # 0
    /\ WarmUpOrder
    /\ polled # -1

\* C24 as stated: while saving.enabled is false no step takes
\* _save_next_number and _last_saved_number away from 0 and -1.
C24_DisabledCountersKept ==
    [][(/\ ~saving_enabled
        /\ ~saving_enabled'
        /\ save_next_number = 0
        /\ last_saved_number = -1)
       => (save_next_number' = 0 /\ last_saved_number' = -1)]_vars

\* The table of the specification: the mode each synchronization resolves
\* to.
C25_Table ==
    [SoftwareStart |-> "INTERNAL_TRIGGER",
     SoftwareTrigger |-> "INTERNAL_TRIGGER_MULTI",
     SoftwareGate |-> "INTERNAL_TRIGGER_MULTI",
     HardwareStart |-> "EXTERNAL_TRIGGER",
     HardwareTrigger |-> "EXTERNAL_TRIGGER_MULTI",
     HardwareGate |-> "EXTERNAL_GATE"]

\* C25 as stated: for each of the six synchronizations, on a device whose
\* capability list has the mode of the table, PrepareOne resolves to that
\* mode.
C25_TriggerTable ==
    (/\ op.name = "PrepareOne"
     /\ C25_Table[op.synchronization] \in op.capabilities)
    => op.trigger_mode = C25_Table[op.synchronization]

\* C26 as stated: a mode that TRIGGER_MAP resolves to INTERNAL_TRIGGER_MULTI
\* becomes INTERNAL_TRIGGER when the capability list lacks
\* INTERNAL_TRIGGER_MULTI or the camera is flagged; every other resolved
\* mode is used as it is.
C26_DegradeRule ==
    (op.name = "PrepareOne" /\ op.synchronization \in DOMAIN TRIGGER_MAP) =>
        IF TRIGGER_MAP[op.synchronization] = "INTERNAL_TRIGGER_MULTI"
        THEN ("INTERNAL_TRIGGER_MULTI" \notin op.capabilities \/ op.flagged)
                => op.trigger_mode = "INTERNAL_TRIGGER"
        ELSE op.trigger_mode = TRIGGER_MAP[op.synchronization]

\* C27 as stated: a resolved mode other than INTERNAL_TRIGGER_MULTI that the
\* capability list lacks ends PrepareOne with UnsupportedTriggerMode, no
\* session created and nothing sent to the device.
C27_UnsupportedRaises ==
    (/\ op.name = "PrepareOne"
     /\ op.synchronization \in DOMAIN TRIGGER_MAP
     /\ TRIGGER_MAP[op.synchronization] # "INTERNAL_TRIGGER_MULTI"
     /\ TRIGGER_MAP[op.synchronization] \notin op.capabilities)
    => /\ op.raised = "UnsupportedTriggerMode"
       /\ ctrl_acquisition = "None"
       /\ op.cmds = << >>

\* What the claim's cases look for in a pattern: the "://" marker, a
\* placeholder {index:...}, a "{" for a prefix to end at, a suffix of the
\* extension table at the end.
C28_HasMarker ==
    \E i \in 1..(Len(op.pattern) - 2) :
        SubSeq(op.pattern, i, i + 2) = <<":", "/", "/">>
C28_HasIndexPlaceholder ==
    \E i, j \in DOMAIN op.pattern :
        /\ i + 2 < j
        /\ op.pattern[i] = "{"
        /\ op.pattern[i + 1] \in {"index", "Index"}
        /\ op.pattern[i + 2] = ":"
        /\ op.pattern[j] = "}"
C28_HasBrace == \E i \in DOMAIN op.pattern : op.pattern[i] = "{"
C28_SuffixInTable ==
    \E f \in DOMAIN LIMA_EXT_FORMAT : \E ext \in LIMA_EXT_FORMAT[f] :
        /\ Len(op.pattern) >= Len(ext)
        /\ Drop(op.pattern, Len(op.pattern) - Len(ext)) = ext

\* C28 as stated: saving_for_pattern ends with a ValueError when the
\* pattern has no "://", no {index:...} placeholder or no "{" to end a
\* prefix, and with the ValueError of the extension when the suffix is not
\* in the table; it returns no configuration then.
C28_ParseFails ==
    op.name = "saving_for_pattern" =>
        /\ (~C28_HasMarker \/ ~C28_HasIndexPlaceholder \/ ~C28_HasBrace)
                => op.out.raised = "ValueError"
        /\ ~C28_SuffixInTable
                => /\ op.out.raised = "ValueError"
                   /\ C28_HasMarker
                        => op.out.message = "The extension is not valid"

\* The pattern and the reference of the example of C29.
C29_Example ==
    filename(saving_for_pattern(
                <<"file", ":", "/", "/", "/", "data", "/", "scan", "/",
                  "img", "_", "{", "index", ":", "0", "4", "d", "}", ".",
                  "edf">>),
             "SOFTWARE", << >>, << >>, 7)
    = <<"file", ":", "/", "/", "/", "data", "/", "scan", "/", "img", "_",
        "0", "0", "0", "7", ".", "edf">>

\* C29: for a pattern scheme://<directory>/<prefix>{index:<w>d}<suffix> and
\* an index i, filename(i) on the parsed config is the scheme of the
\* format, "://", the directory, "/", the prefix (and the hardware prefix
\* in the hardware-managed mode), then i in decimal filled up to w
\* characters, then the suffix (and the dataset path for HDF5); another
\* index gives another reference; the example of the claim holds.
C29_RoundTrip ==
    /\ C29_Example
    /\ op.name = "filename" =>
        LET parts == op.parts
            hdf5 == parts.suffix \in LIMA_EXT_FORMAT["HDF5"]
            head == <<IF hdf5 THEN "h5file" ELSE "file", ":", "/", "/">>
                        \o parts.directory \o <<"/">> \o parts.prefix
                        \o (IF saving_managed_mode = "HARDWARE"
                            THEN op.extra_hw_prefix ELSE << >>)
            tail == parts.suffix
                        \o (IF hdf5 THEN op.dataset_path ELSE << >>)
            digits == Digits(op.index)
            w == Number(parts.width)
            n == IF w > Len(digits) THEN w ELSE Len(digits)
            field == SubSeq(op.ret, Len(head) + 1, Len(head) + n)
        IN  /\ Len(op.ret) = Len(head) + n + Len(tail)
            /\ Take(op.ret, Len(head)) = head
            /\ Drop(op.ret, Len(head) + n) = tail
            /\ Drop(field, n - Len(digits)) = digits
            /\ \A k \in 1..(n - Len(digits)) :
                  field[k] = IF parts.width[1] = "0" THEN "0" ELSE " "
            /\ \A j \in 0..MaxIndex :
                  j # op.index =>
                      filename(saving_for_pattern(pattern_of(parts)),
                               saving_managed_mode, op.extra_hw_prefix,
                               op.dataset_path, j) # op.ret

\* C29 witness: the reference of the claim's example has been built.
C29_Witness ==
    /\ op.name = "filename"
    /\ op.index = 7
    /\ op.ret = <<"file", ":", "/", "/", "/", "data", "/", "scan", "/",
                  "img", "_", "0", "0", "0", "7", ".", "edf">>

\* C30 as stated: the remapping leaves a directory that already starts
\* with the drive (in its form "D:/") as it is; applied to its own result
\* it gives that result again; from the second Saving.prepare on
\* windows_drive does not change.
C30_RemapIdempotent ==
    op.name = "prepare_windows" =>
        /\ (LET target == normalize_drive(op.drive_before)
            IN  /\ Len(op.saving_directory) >= Len(target)
                /\ Take(op.saving_directory, Len(target)) = target)
                => /\ op.raised = "none"
                   /\ op.written = op.saving_directory
        /\ op.raised = "none"
                => remap(op.written, op.windows_remove_base_path,
                         windows_drive) = op.written
        /\ op.calls >= 2 => windows_drive = op.drive_before

\* A header the codec of the call accepts: the magic, the version of the
\* codec, the struct size of that version (64, 64 and 80 bytes for the
\* versions 2, 3 and 4), a type index with a size.
C31_HeaderAccepted ==
    /\ op.header.magic = 1146372441
    /\ op.header.version = op.dataArrayVersion
    /\ op.header.hsize = IF op.dataArrayVersion = 4 THEN 80 ELSE 64
    /\ op.header.typ \in {0, 1, 2, 4, 5, 6}

\* decode has returned N frames, frame i (from 0) read at offset
\* i * (hsize + d1 * d2 * width) + hsize, holding the pixel bytes of frame i
\* of the buffer, in the shape of the header.
C31_FramesDecoded ==
    LET width == <<1, 2, 4, 0, 1, 2, 4>>[op.header.typ + 1]
        frame_size == op.header.d1 * op.header.d2 * width
    IN  /\ op.out.raised = "none"
        /\ Len(op.out.frames) = op.N
        /\ \A i \in 0..(op.N - 1) :
              /\ op.out.frames[i + 1].offset =
                    i * (op.header.hsize + frame_size) + op.header.hsize
              /\ op.out.frames[i + 1].shape = <<op.header.d2, op.header.d1>>
              /\ op.out.frames[i + 1].data =
                    [k \in 1..frame_size |-> <<i, "pixels", k>>]

\* C31 as stated: for every N >= 0, decode with n = N on a buffer of N
\* uniform frames gives the N frames.
C31_Original ==
    (op.name = "decode" /\ C31_HeaderAccepted) => C31_FramesDecoded

\* C31: for every N >= 1, decode with n = N on a buffer of N uniform frames
\* gives the N frames, each read at its offset and in the shape of the
\* header; on the empty buffer of N = 0 frames decode raises struct.error.
C31_DecodeFrames ==
    (op.name = "decode" /\ C31_HeaderAccepted) =>
        IF op.N >= 1 THEN C31_FramesDecoded
        ELSE op.out.raised = "struct.error"

\* C31 witness: a buffer of MaxFrames frames of two 2-byte pixels decoded.
C31_Witness ==
    /\ op.name = "decode"
    /\ op.N = MaxFrames
    /\ op.header.typ = 1
    /\ op.header.d1 = 2
    /\ op.header.d2 = 1
    /\ op.out.raised = "none"
    /\ Len(op.out.frames) = MaxFrames

\* C32: decode raises and returns no frames when the magic of the header
\* is not the constant, when its version is not the version of the codec,
\* when its size is not the struct size of that version, when its type
\* index is 3 or past the table; the constructor raises for a version
\* other than 2, 3 and 4.
C32_BadHeaderRejected ==
    /\ (op.name = "decode" /\ ~C31_HeaderAccepted) => op.out.raised # "none"
    /\ (op.name = "LimaImageFormat" /\ op.dataArrayVersion \notin {2, 3, 4})
            => op.raised = "ValueError"
    /\ op.name = "decode" => op.dataArrayVersion \in {2, 3, 4}

\* C32 witness: a buffer of frames with the reserved type index 3 and an
\* otherwise acceptable header has been refused.
C32_Witness ==
    /\ op.name = "decode"
    /\ op.N >= 1
    /\ op.header.magic = Magic
    /\ op.header.version = op.dataArrayVersion
    /\ op.header.hsize = calcsize(DArrayPackStr[op.dataArrayVersion])
    /\ op.header.typ = 3
    /\ op.out.raised = "TypeError"

\* A status call on a started, not stopped session whose status is Running
\* after the frame test: the device says Running, or Ready with frames
\* missing.
C33_TentativeRunning ==
    /\ op.name = "calc_status"
    /\ nb_starts_called >= 1
    /\ ~stopped
    /\ \/ acq_status = "Running"
       \/ acq_status = "Ready" /\ IdxFinished < nb_frames - 1

\* C33: in INTERNAL_TRIGGER_MULTI such a call returns Ready, with
\* ready_for_next true, exactly when idx_finished + 1 >= nb_starts_called or
\* the saving managed mode is HARDWARE, and Running with ready_for_next
\* false.
C33_InternalMultiReady ==
    (C33_TentativeRunning /\ trigger = "INTERNAL_TRIGGER_MULTI") =>
        IF ready_for_next_image
        THEN (op.ret = "Ready")
                <=> (IdxFinished + 1 >= nb_starts_called
                     \/ saving_managed_mode = "HARDWARE")
        ELSE op.ret = "Running"

\* C33 witness: the second start of a multi session, whose first frame is
\* not saved yet, reported Ready because the saving is hardware-managed.
C33_Witness ==
    /\ C33_TentativeRunning
    /\ trigger = "INTERNAL_TRIGGER_MULTI"
    /\ ready_for_next_image
    /\ nb_starts_called = 2
    /\ IdxFinished = -1
    /\ saving_managed_mode = "HARDWARE"
    /\ op.ret = "Ready"

\* C34 as stated: in an external mode with nb_starts > 1 such a call
\* returns Ready only when get_next_number has caught up to idx_finished,
\* and Running while it is behind or no frame is finished.
C34_ExternalCaughtUp ==
    (/\ C33_TentativeRunning
     /\ is_external(trigger)
     /\ nb_starts > 1) =>
        /\ op.ret = "Ready" => get_next_number >= IdxFinished
        /\ (get_next_number < IdxFinished \/ IdxFinished = -1)
                => op.ret = "Running"

\* The accesses of the prepare under way or just returned, in the order
\* the method makes them: the batch write, the command, the reads.
PrepareOrder ==
    /\ accesses[1] = WriteBatch(prepare_names)
    /\ Len(accesses) >= 2 => accesses[2] = Command("prepareAcq")
    /\ \A i \in DOMAIN accesses :
            i >= 3 => /\ accesses[i].kind = "read"
                      /\ accesses[i].attr = "last_image_saved"

\* C35: inside Acquisition.prepare the four acquisition attributes are
\* written in one batch before the prepareAcq command; with saving enabled
\* the method returns only on a read of last_image_saved that follows the
\* command and returned -1; and the state start() finds after such a
\* prepare has last_image_saved = -1.
C35_PrepareOrdered ==
    /\ [](pc \in {"prepare_acq", "prepare_wait"} => PrepareOrder)
    /\ [][(pc # "idle" /\ pc' = "idle" /\ op'.name = "prepare")
            => /\ PrepareOrder'
               /\ Len(accesses') >= 2
               /\ saving_enabled
                    => /\ Len(accesses') >= 3
                       /\ accesses'[Len(accesses')] = ReadSaved(-1)]_vars
    /\ []((pc = "idle" /\ op.name = "prepare" /\ saving_enabled)
            => last_image_saved = -1)

\* A prepare with saving enabled that found a leftover count of saved
\* frames after prepareAcq and returned on the read of -1 after it.
C35_Witness ==
    /\ pc = "idle"
    /\ op.name = "prepare"
    /\ saving_enabled
    /\ Len(accesses) = 4
    /\ accesses[3].value >= 0
    /\ accesses[4] = ReadSaved(-1)

\* C36: with saving enabled and a device that eventually reports
\* last_image_saved == -1, a prepare in its wait loop eventually returns;
\* the loop has no timeout: as long as the device reports another value no
\* step ends the call, by a return or by an exception.
C36_PrepareTerminates ==
    /\ (pc = "prepare_wait") ~> (pc = "idle" /\ op.name = "prepare")
    /\ [][(pc = "prepare_wait" /\ last_image_saved # -1)
            => (pc' = "prepare_wait" /\ op' = op)]_vars

\* A prepare that has read a leftover count and waits.
C36_Witness ==
    /\ pc = "prepare_wait"
    /\ last_image_saved >= 0
    /\ accesses[Len(accesses)] = ReadSaved(last_image_saved)

\* The references a step appends to emitted, and the number k of the saved
\* frame the j-th of them stands for.
NewRefs == {j \in DOMAIN emitted' : j > Len(emitted)}
RefFrame(j) == last_saved_number + (j - Len(emitted))

\* C37: the frames_per_file divisor is applied only in hardware-managed
\* mode, where the reference of the k-th saved frame has the file index
\* floor(k / frames_per_file) + _save_next_number; in software-managed mode
\* every reference handed out for a saved frame has a file index of its
\* own, whatever frames_per_file is, in next_ref_frame and in
\* next_ref_frames.
C37_DivisorHardwareOnly ==
    [][(NextRefFrame \/ NextRefFrames) =>
         IF saving_managed_mode = "HARDWARE"
         THEN \A j \in NewRefs :
                emitted'[j] =
                    (RefFrame(j) \div frames_per_file) + save_next_number
         ELSE Len(emitted') <= last_image_saved + 1 =>
                \A j \in NewRefs :
                    \A i \in 1..(j - 1) : emitted'[i] # emitted'[j]]_vars

\* The last call was a start() that raised.
StartRaised == op.name = "start" /\ "raised" \in DOMAIN op

\* C38: a start() that raises, on the startAcq command or on the read of
\* saving_next_number after it, leaves nb_starts_called and
\* _save_next_number (and every other session field) as they were and ends
\* the call with the error; in an external trigger mode the start() that
\* follows a failed snapshot read sends startAcq again.
C38_FailedStartKeepsState ==
    [][/\ (StartAcqFail \/ StartSnapshotFail)
            => /\ "raised" \in DOMAIN op'
               /\ pc' = "idle"
               /\ UNCHANGED <<nb_starts_called, save_next_number, session>>
       /\ (/\ StartAcq
           /\ is_external(trigger)
           /\ StartRaised
           /\ op.raised = "read_attribute")
            => pc' = "start_snapshot"]_vars

\* A start() in an external trigger mode that follows a start() failed on
\* the snapshot read and has sent startAcq to the running device again.
C38_Witness ==
    /\ is_external(trigger)
    /\ pc = "start_snapshot"
    /\ StartRaised
    /\ op.raised = "read_attribute"
    /\ op.cmds = <<"startAcq">>
    /\ acq_status = "Running"
    /\ nb_starts_called = 0

\* C39: legacy controller in sequence mode, any interleaving of ReadOne and
\* RefOne after a StartOne: every RefOne leaves one reference emitted per
\* saved frame, numbered consecutively, and every ReadOne leaves every
\* ready frame index delivered exactly once, in order; neither call makes
\* the other skip an item.
C39_ReadRefIndependent ==
    [][/\ (Lima_RefOne /\ _started_flg)
            => /\ Len(emitted') = last_image_saved + 1
               /\ \A i \in 2..Len(emitted') :
                      emitted'[i] = emitted'[i - 1] + 1
       /\ (Lima_ReadOne /\ _started_flg)
            => /\ Len(delivered') = last_image_ready + 1
               /\ \A i \in 1..Len(delivered') : delivered'[i] = i - 1]_vars

\* C40: legacy controller, after StopOne or AbortOne: a StateOne that reads
\* acq_status Ready returns State.On, however many frames were acquired or
\* saved, with value references enabled and with them disabled.
C40_StoppedReportsOn ==
    [][(Lima_StateOne /\ _started_flg /\ _aborted_flg
            /\ acq_status = "Ready")
            => op'.ret = "On"]_vars

====
